---- MODULE Spec2Model ----
(***************************************************************************)
(* Model of the video quality detector (Cloudflare Worker).                *)
(*                                                                         *)
(*   src/src/videoProcessor.js  analyzeVideoMetadata, detectCorruption,    *)
(*                              sampleVideoData                            *)
(*   src/src/index.js           handleVideoDetection, detectVideoIssues,   *)
(*                              extractFeatures, ruleBasedDetection        *)
(*   src/src/aiDetector.js      detectWithHuggingFace,                     *)
(*                              detectWithCloudflareAI, extractFeatures,   *)
(*                              ruleBasedDetection, analyzeFrameWithHF,    *)
(*                              parseModelOutput, aggregateFrameResults    *)
(*                                                                         *)
(* JavaScript objects are functions from key strings to values, so that    *)
(* Object.assign, a missing key (undefined) and `x || default` are         *)
(* modelled by what they do.  The detail messages are Chinese strings in   *)
(* the source; the model names each by an ASCII string (see the Msg...     *)
(* definitions).  Numbers: confidences are hundredths (0.85 is 85);        *)
(* variances are fixed-point rationals in units of 1/Scale; the vote       *)
(* threshold N * 0.3 is computed as the IEEE-754 double product.           *)
(***************************************************************************)
EXTENDS Integers, Sequences, FiniteSets, TLC

\* ------------------------------------------------------------------ bounds

\* The caller supplies 0..MaxFrames frame images with a request.
MaxFrames == 6

\* aggregateFrameResults is exercised on sequences of up to this many results.
MaxAggFrames == 10

\* ------------------------------------------------------------- small helpers

Min(a, b) == IF a < b THEN a ELSE b

Max(a, b) == IF a > b THEN a ELSE b

Abs(a) == IF a < 0 THEN 0 - a ELSE a

Last(s) == s[Len(s)]

\* s begins with p
IsPrefix(p, s) == /\ Len(p) <= Len(s)
                  /\ \A i \in 1..Len(p) : s[i] = p[i]

\* m occurs in s
Contains(s, m) == \E i \in 1..Len(s) : s[i] = m

\* s[lo] + ... + s[hi], by halves
RECURSIVE SumRange(_, _, _)
SumRange(s, lo, hi) ==
  IF lo > hi THEN 0
  ELSE IF lo = hi THEN s[lo]
  ELSE LET mid == (lo + hi) \div 2
       IN  SumRange(s, lo, mid) + SumRange(s, mid + 1, hi)

SumSeq(s) == SumRange(s, 1, Len(s))

SumSquares(s) == SumRange([i \in 1..Len(s) |-> s[i] * s[i]], 1, Len(s))

\* ------------------------------------------------------- JavaScript objects

\* {} : the object with no keys
EmptyObject == <<>>

\* Object.assign(target, source): every own key of source is written to target
ObjectAssign(target, source) ==
  [k \in (DOMAIN target) \cup (DOMAIN source) |->
      IF k \in DOMAIN source THEN source[k] ELSE target[k]]

\* o.issues || {} : reading a key the object does not have gives undefined
IssuesOrEmpty(o) == IF "issues" \in DOMAIN o THEN o["issues"] ELSE EmptyObject

\* o.details || []
DetailsOrEmpty(o) == IF "details" \in DOMAIN o THEN o["details"] ELSE <<>>

\* o.confidence || dflt : 0 (and a missing key) is falsy
ConfidenceOr(o, dflt) ==
  IF "confidence" \in DOMAIN o /\ o["confidence"] # 0 THEN o["confidence"] ELSE dflt

\* ------------------------------------------------------ JavaScript numbers

(* A number is num / (den * Scale), or NaN, or -Infinity.  Sums, absolute    *)
(* differences and maxima are exact on this representation; a division      *)
(* keeps the divisor in den.                                                 *)
Scale == 100 * 100

Num(n) == [kind |-> "num", num |-> n, den |-> 1]

NaN == [kind |-> "nan", num |-> 0, den |-> 1]

NegInfinity == [kind |-> "ninf", num |-> 0, den |-> 1]

IsNum(a) == a.kind = "num"

\* Math.abs(a - b), for operands of denominator 1
AbsDiff(a, b) ==
  IF IsNum(a) /\ IsNum(b) THEN Num(Abs(a.num - b.num)) ELSE NaN

\* a + b, for operands of denominator 1
Plus(a, b) ==
  IF IsNum(a) /\ IsNum(b) THEN Num(a.num + b.num) ELSE NaN

\* a / n for a count n >= 0 : 0/0 is NaN
DivideByCount(a, n) ==
  IF ~IsNum(a) THEN NaN
  ELSE IF n = 0 THEN NaN     \* the numerators here are sums over n terms: 0/0
  ELSE [kind |-> "num", num |-> a.num, den |-> a.den * n]

\* a > c for an integer constant c : false for NaN and for -Infinity
GreaterThan(a, c) == IsNum(a) /\ a.num > c * Scale * a.den

\* a >= b on numbers of denominator 1; -Infinity is below every number
AtLeast(a, b) ==
  \/ b.kind = "ninf"
  \/ IsNum(a) /\ IsNum(b) /\ a.num >= b.num

\* Math.max(...s): -Infinity for no arguments, NaN if an argument is NaN,
\* else the largest (the arguments here are numbers of denominator 1 or NaN)
MathMax(s) ==
  IF s = <<>> THEN NegInfinity
  ELSE IF \E i \in 1..Len(s) : ~IsNum(s[i]) THEN NaN
  ELSE s[CHOOSE i \in 1..Len(s) : \A j \in 1..Len(s) : s[i].num >= s[j].num]

\* s.reduce((a, b) => a + b, 0): NaN once a term is NaN
ReduceSum(s) ==
  IF \E i \in 1..Len(s) : ~IsNum(s[i]) THEN NaN
  ELSE Num(SumSeq([i \in 1..Len(s) |-> s[i].num]))

\* --------------------------------------------------------------- RawBuffer

(* A buffer is its length, its first bytes given explicitly, and a rule for   *)
(* the bytes after them: 0 everywhere, except that from byte `from` on, in    *)
(* every second stretch of `period` bytes, the odd positions hold `hi`.       *)
Buf(len, head, period, from, hi) ==
  [byteLength |-> len, head |-> head, period |-> period, from |-> from, hi |-> hi]

\* the byte at 0-based position i < byteLength
ByteAt(b, i) ==
  IF i < Len(b.head) THEN b.head[i + 1]
  ELSE IF i >= b.from /\ (i \div b.period) % 2 = 1 /\ i % 2 = 1 THEN b.hi
  ELSE 0

\* new Uint8Array(buffer.slice(start, end)): clamped to the buffer's end
Slice(b, start, end) ==
  LET lo == Min(start, b.byteLength)
      hi == Min(end, b.byteLength)
  IN  [j \in 1..(IF hi > lo THEN hi - lo ELSE 0) |-> ByteAt(b, lo + j - 1)]

\* arr[i] for a 0-based index: undefined (here -1) beyond the end
At(arr, i) == IF i < Len(arr) THEN arr[i + 1] ELSE 0 - 1

\* "....ftyp", "RIFF", the EBML magic, and a header that matches none
MP4Head == <<0, 0, 0, 24, 102, 116, 121, 112>>

AVIHead == <<82, 73, 70, 70, 0, 0, 0, 0>>

WebMHead == <<26, 69, 223, 163, 0, 0, 0, 0>>

NoHead == <<0, 0, 0, 0, 0, 0, 0, 0>>

\* "RIFF" followed by "ftyp": both the MP4 and the AVI pattern
RiffFtypHead == <<82, 73, 70, 70, 102, 116, 121, 112>>

\* ------------------------------------------------- src/src/videoProcessor.js

IsMP4(header) ==
  /\ At(header, 4) = 102 /\ At(header, 5) = 116
  /\ At(header, 6) = 121 /\ At(header, 7) = 112

IsAVI(header) ==
  /\ At(header, 0) = 82 /\ At(header, 1) = 73
  /\ At(header, 2) = 70 /\ At(header, 3) = 70

IsWebM(header) ==
  /\ At(header, 0) = 26 /\ At(header, 1) = 69
  /\ At(header, 2) = 223 /\ At(header, 3) = 163

\* mutant: the AVI test comes before the MP4 test
analyzeVideoMetadataAVIFirst(videoBuffer, mimeType) ==
  LET header == Slice(videoBuffer, 0, 12)
  IN  [size |-> videoBuffer.byteLength,
       mimeType |-> mimeType,
       codec |-> IF IsAVI(header) THEN "AVI"
                 ELSE IF IsMP4(header) THEN "MP4"
                 ELSE IF IsWebM(header) THEN "WebM"
                 ELSE "null"]

\* analysis.codec: null is the string "null"
analyzeVideoMetadata(videoBuffer, mimeType) ==
  LET header == Slice(videoBuffer, 0, 12)
  IN  [size |-> videoBuffer.byteLength,
       mimeType |-> mimeType,
       codec |-> IF IsMP4(header) THEN "MP4"
                 ELSE IF IsAVI(header) THEN "AVI"
                 ELSE IF IsWebM(header) THEN "WebM"
                 ELSE "null"]

MsgTooSmall == "file too small, possibly incomplete"

MsgBadHeader == "abnormal file header, possibly corrupted"

MinFileBytes == 1024

\* mutant: no early return, the header is checked for a small buffer too
detectCorruptionNoEarlyReturn(videoBuffer) ==
  LET header == Slice(videoBuffer, 0, 20)
      hasValidHeader == IsMP4(header) \/ IsAVI(header) \/ IsWebM(header)
      issues == (IF videoBuffer.byteLength < MinFileBytes THEN <<MsgTooSmall>> ELSE <<>>)
                \o (IF hasValidHeader THEN <<>> ELSE <<MsgBadHeader>>)
  IN  [hasIssue |-> Len(issues) > 0, issues |-> issues]

\* mutant: the WebM pattern is not among the valid headers
detectCorruptionNoWebM(videoBuffer) ==
  IF videoBuffer.byteLength < MinFileBytes
  THEN [hasIssue |-> TRUE, issues |-> <<MsgTooSmall>>]
  ELSE LET header == Slice(videoBuffer, 0, 20)
           hasValidHeader == IsMP4(header) \/ IsAVI(header)
           issues == IF hasValidHeader THEN <<>> ELSE <<MsgBadHeader>>
       IN  [hasIssue |-> Len(issues) > 0, issues |-> issues]

detectCorruption(videoBuffer) ==
  IF videoBuffer.byteLength < MinFileBytes
  THEN [hasIssue |-> TRUE, issues |-> <<MsgTooSmall>>]
  ELSE LET header == Slice(videoBuffer, 0, 20)
           hasValidHeader == IsMP4(header) \/ IsAVI(header) \/ IsWebM(header)
           issues == IF hasValidHeader THEN <<>> ELSE <<MsgBadHeader>>
       IN  [hasIssue |-> Len(issues) > 0, issues |-> issues]

WindowBytes == 100

KeptBytes == 20

(* variance of a window of n bytes, in units of 1/Scale:                      *)
(*   (n * sum(x^2) - sum(x)^2) / n^2, exact when n divides WindowBytes,       *)
(*   truncated to 1/Scale otherwise; NaN for the empty window (0/0).          *)
VarianceOf(chunk) ==
  LET n == Len(chunk)
      x == n * SumSquares(chunk) - SumSeq(chunk) * SumSeq(chunk)
  IN  IF n = 0 THEN NaN
      ELSE Num((x \div (n * n)) * Scale + ((x % (n * n)) * Scale) \div (n * n))

MeanOf(chunk) ==
  IF Len(chunk) = 0 THEN NaN ELSE Num((SumSeq(chunk) * Scale) \div Len(chunk))

sampleVideoData(videoBuffer, sampleCount) ==
  LET chunkSize == videoBuffer.byteLength \div sampleCount
  IN  [i \in 1..sampleCount |->
         LET offset == (i - 1) * chunkSize
             chunk == Slice(videoBuffer, offset, offset + WindowBytes)
         IN  [offset |-> offset,
              mean |-> MeanOf(chunk),
              variance |-> VarianceOf(chunk),
              data |-> SubSeq(chunk, 1, Min(KeptBytes, Len(chunk)))]]

\* ------------------------------ extractFeatures (index.js and aiDetector.js)

\* varianceChanges: |variance[i] - variance[i-1]| for consecutive samples
VarianceChanges(samples) ==
  [i \in 1..(IF Len(samples) > 0 THEN Len(samples) - 1 ELSE 0) |->
      AbsDiff(samples[i + 1].variance, samples[i].variance)]

\* index.js: Math.max is guarded for the empty list
extractFeatures(samples, metadata) ==
  LET varianceChanges == VarianceChanges(samples)
  IN  [dataVariance |-> [i \in 1..Len(samples) |-> samples[i].variance],
       dataMean |-> [i \in 1..Len(samples) |-> samples[i].mean],
       fileSize |-> metadata.size,
       codec |-> metadata.codec,
       varianceVolatility |->
          DivideByCount(ReduceSum(varianceChanges), Len(varianceChanges)),
       maxVarianceChange |->
          IF Len(varianceChanges) > 0 THEN MathMax(varianceChanges) ELSE Num(0)]

\* aiDetector.js: Math.max(...varianceChanges) unguarded
extractFeaturesAI(samples, metadata) ==
  LET varianceChanges == VarianceChanges(samples)
  IN  [dataVariance |-> [i \in 1..Len(samples) |-> samples[i].variance],
       dataMean |-> [i \in 1..Len(samples) |-> samples[i].mean],
       fileSize |-> metadata.size,
       codec |-> metadata.codec,
       varianceVolatility |->
          DivideByCount(ReduceSum(varianceChanges), Len(varianceChanges)),
       maxVarianceChange |-> MathMax(varianceChanges)]

\* --------------------------- ruleBasedDetection (index.js and aiDetector.js)

IssueKinds == {"glitch", "corruption", "stutter", "colorShift", "missingPerson"}

ZeroIssues == [k \in IssueKinds |-> FALSE]

VolatilityThreshold == 5000

MaxChangeThreshold == 10000

MsgGlitch == "abnormal data fluctuation, possible screen glitch"

MsgCodec == "unrecognized video codec, possible garbling or file damage"

MsgStutter == "data discontinuity, possible stutter"

MsgNeedFrames == "color shift and person detection need frame image analysis (enable AI detection)"

MsgNeedFramesAI == "color shift and person detection need frame image analysis"

\* mutant: the thresholds are reached at equality (>= in place of >)
RuleResultsAtLeast(features, metadata, lastDetail) ==
  LET reaches(a, c) == IsNum(a) /\ a.num >= c * Scale * a.den
      glitch == reaches(features.varianceVolatility, VolatilityThreshold)
      corruption == metadata.codec = "null"
      stutter == reaches(features.maxVarianceChange, MaxChangeThreshold)
  IN  [glitch |-> glitch,
       corruption |-> corruption,
       stutter |-> stutter,
       colorShift |-> FALSE,
       missingPerson |-> FALSE,
       details |-> (IF glitch THEN <<MsgGlitch>> ELSE <<>>)
                   \o (IF corruption THEN <<MsgCodec>> ELSE <<>>)
                   \o (IF stutter THEN <<MsgStutter>> ELSE <<>>)
                   \o <<lastDetail>>]

\* the body shared by the two copies; they differ in the last detail only
RuleResults(features, metadata, lastDetail) ==
  LET glitch == GreaterThan(features.varianceVolatility, VolatilityThreshold)
      corruption == metadata.codec = "null"
      stutter == GreaterThan(features.maxVarianceChange, MaxChangeThreshold)
  IN  [glitch |-> glitch,
       corruption |-> corruption,
       stutter |-> stutter,
       colorShift |-> FALSE,
       missingPerson |-> FALSE,
       details |-> (IF glitch THEN <<MsgGlitch>> ELSE <<>>)
                   \o (IF corruption THEN <<MsgCodec>> ELSE <<>>)
                   \o (IF stutter THEN <<MsgStutter>> ELSE <<>>)
                   \o <<lastDetail>>]

\* index.js
ruleBasedDetection(features, metadata) ==
  RuleResults(features, metadata, MsgNeedFrames)

\* aiDetector.js
ruleBasedDetectionAI(features, metadata) ==
  RuleResults(features, metadata, MsgNeedFramesAI)

\* ------------------------------------------- parseModelOutput (aiDetector.js)

(* A label is a sequence of one-character strings.  A reply of the capability *)
(* is an array of items, each with a label (an empty label stands for an item *)
(* without one), or a single object with a label.                             *)
UpperCase == <<"A", "B", "C", "D", "E", "F", "G", "H", "I", "J", "K", "L", "M",
               "N", "O", "P", "Q", "R", "S", "T", "U", "V", "W", "X", "Y", "Z">>

LowerCase == <<"a", "b", "c", "d", "e", "f", "g", "h", "i", "j", "k", "l", "m",
               "n", "o", "p", "q", "r", "s", "t", "u", "v", "w", "x", "y", "z">>

LowerChar(c) ==
  IF \E i \in 1..Len(UpperCase) : UpperCase[i] = c
  THEN LowerCase[CHOOSE i \in 1..Len(UpperCase) : UpperCase[i] = c]
  ELSE c

\* label.toLowerCase()
toLowerCase(label) == [i \in 1..Len(label) |-> LowerChar(label[i])]

\* text.includes(word)
includes(text, word) ==
  \E i \in 1..(Len(text) - Len(word) + 1) :
     SubSeq(text, i, i + Len(word) - 1) = word

\* labels.join(' ')
RECURSIVE JoinLabels(_)
JoinLabels(labels) ==
  IF labels = <<>> THEN <<>>
  ELSE IF Len(labels) = 1 THEN labels[1]
  ELSE labels[1] \o <<" ">> \o JoinLabels(Tail(labels))

WordGlitch == <<"g", "l", "i", "t", "c", "h">>

WordCorrupt == <<"c", "o", "r", "r", "u", "p", "t">>

WordError == <<"e", "r", "r", "o", "r">>

ArrayReply(labels) == [shape |-> "array", items |-> labels, label |-> <<>>]

ObjectReply(label) == [shape |-> "object", items |-> <<>>, label |-> label]

parseModelOutput(modelResult) ==
  LET labels == JoinLabels([i \in 1..Len(modelResult.items) |->
                               toLowerCase(modelResult.items[i])])
      fromArray == /\ modelResult.shape = "array"
                   /\ \/ includes(labels, WordGlitch)
                      \/ includes(labels, WordCorrupt)
                      \/ includes(labels, WordError)
      label == toLowerCase(modelResult.label)
      fromObject == /\ modelResult.shape = "object"
                    /\ modelResult.label # <<>>
                    /\ \/ includes(label, WordGlitch)
                       \/ includes(label, WordCorrupt)
      hit == fromArray \/ fromObject
  IN  [glitch |-> hit, corruption |-> hit, stutter |-> FALSE,
       colorShift |-> FALSE, missingPerson |-> FALSE]

\* -------------------------------------- aggregateFrameResults (aiDetector.js)

RECURSIVE Pow2(_)
Pow2(k) == IF k = 0 THEN 1 ELSE 2 * Pow2(k - 1)

RECURSIVE BitLen(_)
BitLen(x) == IF x = 0 THEN 0 ELSE 1 + BitLen(x \div 2)

(* The double 0.3 is FractionMantissa * 2^-54 with the 53-bit mantissa       *)
(* 5404319552844595 = FractionHi * 2^LimbBits + FractionLo.                  *)
LimbBits == 27

FractionHi == 40265318

FractionLo == 53687091

MantissaBits == 53

(* frameResults.length * 0.3 as the double product: the exact product of n   *)
(* and the mantissa, rounded to MantissaBits significant bits, ties to even. *)
(* The result is (hi * 2^LimbBits + lo) * 2^-54.                             *)
TimesFraction(n) ==
  LET limb == Pow2(LimbBits)
      lo0 == n * FractionLo
      lo == lo0 % limb
      hi == n * FractionHi + lo0 \div limb
      k == IF hi = 0 THEN 0 ELSE BitLen(hi) + LimbBits - MantissaBits
      unit == Pow2(k)
      r == lo % unit
      base == lo - r
      roundUp == \/ 2 * r > unit
                 \/ 2 * r = unit /\ (base \div unit) % 2 = 1
      lo1 == IF roundUp THEN base + unit ELSE base
  IN  IF lo1 = limb THEN [hi |-> hi + 1, lo |-> 0] ELSE [hi |-> hi, lo |-> lo1]

\* mutant: count >= threshold
CountReaches(count, threshold) ==
  \/ count * Pow2(LimbBits) > threshold.hi
  \/ count * Pow2(LimbBits) = threshold.hi /\ threshold.lo = 0

\* count > threshold, for an integer count and a threshold of TimesFraction
CountExceeds(count, threshold) == count * Pow2(LimbBits) > threshold.hi

\* issueCounts[issue]: the frames whose issues[issue] is true
IssueCount(frameResults, issue) ==
  Cardinality({i \in 1..Len(frameResults) : frameResults[i].issues[issue]})

aggregateFrameResults(frameResults) ==
  LET threshold == TimesFraction(Len(frameResults))
  IN  [issue \in IssueKinds |->
         CountExceeds(IssueCount(frameResults, issue), threshold)]

\* ------------------------------------------------------- detail messages

MsgAIDisabled == "rule engine used (AI disabled)"

MsgFallback == "AI detection failed, fell back to rule engine"

MsgCloudflare == "Cloudflare AI detection (a model must be configured)"

MsgCloudflareError == "Cloudflare AI detection error: Cloudflare AI not configured"

MsgNoFrames == "hint: no video frame images found, using rule engine"

MsgRuleAndData == "detection by rule engine and data analysis"

MsgFFmpeg == "hint: full detection needs frame extraction, FFmpeg preprocessing suggested"

MsgServiceError == "AI detection service error: frame analysis failed"

\* `使用 AI 模型分析了 ${n} 个视频帧`
MsgAnalysed(n) == "AI model analysed " \o ToString(n) \o " video frames"

\* ------------------------------------------------------------ confidences

ConfRuleOnly == 60

ConfFallback == 50

ConfPreferred == 80

ConfSecondary == 70

ConfFrames == 85

\* --------------------------------------------------- requests and replies

SampleCount == 10

FrameLimit == 5

Buffers ==
  { Buf(0, <<>>, 200, 0, 0),
    Buf(500, MP4Head, 200, 0, 0),
    Buf(500, NoHead, 200, 0, 0),
    Buf(2000000, MP4Head, 200000, 0, 0),
    Buf(2000, MP4Head, 200, 0, 255),
    Buf(2000, AVIHead, 200, 0, 155),
    Buf(2000, WebMHead, 1000, 0, 255),
    Buf(2000, NoHead, 200, 0, 0) }

\* the values of the form field useAI: the page sends "true" or "false"; "on"
\* is what a plain checkbox would send
UseAIFields == {"true", "false", "on"}

\* formData.get('useAI') === 'true'
ParseUseAI(field) == field = "true"

\* const maxSize = 1024 * 1024 * 1024
MaxSize == 1024 * 1024 * 1024

\* mutant: the URL is looked at before the uploaded file
SourceOfUrlFirst(hasFile, hasUrl) ==
  IF hasUrl THEN "url" ELSE IF hasFile THEN "file" ELSE "none"

\* lines 58, 73, 91: the branch taken for the fields video and videoUrl
SourceOf(hasFile, hasUrl) ==
  IF hasFile THEN "file" ELSE IF hasUrl THEN "url" ELSE "none"

\* the request, with useAI as handleVideoDetection reads it from the field.
\* isForm tells whether request.formData() gives the form; hasFile whether the
\* field video is a File, hasUrl whether the field videoUrl is set; source is
\* the branch taken for them; buffer is the uploaded file's content, or else
\* what the URL serves; fetchOk tells whether fetch(videoUrl) answers, and
\* with an ok status.  Here: uploaded files.
Requests ==
  { [isForm |-> TRUE, hasFile |-> TRUE, hasUrl |-> FALSE,
     source |-> SourceOf(TRUE, FALSE), fetchOk |-> TRUE,
     buffer |-> b, mimeType |-> "video/mp4", useAIField |-> f,
     useAI |-> ParseUseAI(f), frames |-> n] :
       b \in Buffers, f \in UseAIFields, n \in 0..MaxFrames }

\* videos around the size limit
IngressBuffers ==
  { Buf(len, MP4Head, 200, 0, 0) : len \in {2000, MaxSize - 1, MaxSize, MaxSize + 1} }

\* no video at all
NoBuffer == Buf(0, <<>>, 200, 0, 0)

\* the frames sent along with the requests below
IngressFrames == {0, 2}

\* requests by upload, by URL (fetched or not), by both, without a video, and
\* requests whose body is no form data
IngressRequests ==
  { [isForm |-> TRUE, hasFile |-> fields[1], hasUrl |-> fields[2],
     source |-> SourceOf(fields[1], fields[2]), fetchOk |-> ok,
     buffer |-> b, mimeType |-> "video/mp4", useAIField |-> f,
     useAI |-> ParseUseAI(f), frames |-> n] :
       fields \in {<<TRUE, FALSE>>, <<FALSE, TRUE>>, <<TRUE, TRUE>>},
       ok \in BOOLEAN, b \in IngressBuffers,
       f \in {"true", "false"}, n \in IngressFrames }
  \cup
  { [isForm |-> TRUE, hasFile |-> FALSE, hasUrl |-> FALSE,
     source |-> SourceOf(FALSE, FALSE), fetchOk |-> FALSE,
     buffer |-> NoBuffer, mimeType |-> "video/mp4", useAIField |-> f,
     useAI |-> ParseUseAI(f), frames |-> n] :
       f \in {"true", "false"}, n \in IngressFrames }
  \cup
  { [isForm |-> FALSE, hasFile |-> FALSE, hasUrl |-> FALSE,
     source |-> "none", fetchOk |-> FALSE,
     buffer |-> NoBuffer, mimeType |-> "video/mp4", useAIField |-> f,
     useAI |-> ParseUseAI(f), frames |-> n] :
       f \in {"true", "false"}, n \in IngressFrames }

\* env.AI is the platform binding (present or not); HF_API_KEY a string
Envs == [AI : BOOLEAN, HF_API_KEY : {"", "hf_token"}]

LabelGlitch == <<"G", "l", "i", "t", "c", "h">>

LabelCat == <<"t", "a", "b", "b", "y">>

LabelError == <<"E", "r", "r", "o", "r">>

\* the replies the capability gives to a frame, by name
ReplyIds == {"glitchLabels", "cleanLabels", "errorObject"}

Reply(id) ==
  CASE id = "glitchLabels" -> ArrayReply(<<LabelCat, LabelGlitch>>)
    [] id = "cleanLabels" -> ArrayReply(<<LabelCat>>)
    [] id = "errorObject" -> ObjectReply(LabelError)

ParsedReply == [id \in ReplyIds |-> parseModelOutput(Reply(id))]

\* sampleVideoData(buffer, 10), tabulated over the buffers of the requests
SampleTable == [b \in Buffers \cup IngressBuffers |-> sampleVideoData(b, SampleCount)]

\* the ways analyzeFrameWithHF throws: HTTP 503, any other failed request
FrameErrors == {"unavailable503", "requestError"}

\* a classification under way, of the supplied frame number frame (from 1, in
\* the order of the form's entries)
Pending(frame) == [state |-> "pending", reply |-> "", error |-> "", frame |-> frame]

\* ------------------------------------------------------------------ state

VARIABLES
  pc,               \* where the request is
  request,          \* the form data: buffer, mime type, useAI flag, frames
  env,              \* the Worker's environment bindings
  metadata,         \* analyzeVideoMetadata's result (+ extractedFrames)
  corruptionCheck,  \* detectCorruption's result
  samples,          \* sampleVideoData's result
  issues,           \* detectVideoIssues: the issues object being built
  details,          \* detectVideoIssues: the details list being built
  frameStatus,      \* one entry per submitted frame classification
  aggregatorCalls,  \* the arguments aggregateFrameResults was called with
  report,           \* what detectVideoIssues returned (detectionResults)
  response,         \* the HTTP response
  fnArgs,           \* a function called on its own: its arguments
  fnResult,         \* a function called on its own: what it returned
  client            \* the browser page: its controls and its detection attempts

vars == <<pc, request, env, metadata, corruptionCheck, samples, issues, details,
          frameStatus, aggregatorCalls, report, response, fnArgs, fnResult,
          client>>

NoMetadata == [size |-> 0, mimeType |-> "", codec |-> "null"]

NoCorruptionCheck == [hasIssue |-> FALSE, issues |-> <<>>]

NoReport == [issues |-> ZeroIssues, details |-> <<>>, confidence |-> 0]

NoResponse == [status |-> 0]

\* ------------------------------------------------------------------ the page
\* The browser page served by the Worker (index.js, the script of the HTML).

\* detection attempts one run of the page may start
MaxAttempts == 2

\* extractVideoFrames(previewVideo, 5): the frames one attempt asks for
ClientFrames == 5

\* an attempt not started yet
NoAttempt == [phase |-> "None", frame |-> 0, frames |-> 0, useAI |-> FALSE,
              outcome |-> "none"]

\* the page as first rendered: no video source, the detect button disabled, the
\* loading indicator and the messages hidden, the AI toggle checked
PageLoaded ==
  [videoSource |-> "null",
   ready |-> FALSE,
   detectBtnDisabled |-> TRUE,
   loadUrlBtnDisabled |-> FALSE,
   loadingShown |-> FALSE,
   errorShown |-> FALSE,
   resultsShown |-> FALSE,
   aiToggle |-> TRUE,
   sent |-> 0,
   attempts |-> [i \in 1..MaxAttempts |-> NoAttempt]]

Init ==
  /\ client = PageLoaded
  /\ pc = "Received"
  /\ request \in Requests
  /\ env \in Envs
  /\ metadata = NoMetadata
  /\ corruptionCheck = NoCorruptionCheck
  /\ samples = <<>>
  /\ issues = ZeroIssues
  /\ details = <<>>
  /\ frameStatus = <<>>
  /\ aggregatorCalls = <<>>
  /\ report = NoReport
  /\ response = NoResponse
  /\ fnArgs = <<>>
  /\ fnResult = <<>>

\* ------------------------------------------------ the capability routines

\* {glitch: false, ..., details: [], confidence: 0}
ZeroResults ==
  [glitch |-> FALSE, corruption |-> FALSE, stutter |-> FALSE,
   colorShift |-> FALSE, missingPerson |-> FALSE,
   details |-> <<>>, confidence |-> 0]

\* obj with value pushed onto obj.details
PushDetail(obj, msg) == [obj EXCEPT !["details"] = Append(@, msg)]

\* what a routine hands to its caller: a value, or a failure thrown
Returned(value) == [threw |-> FALSE, value |-> value]

Thrown == [threw |-> TRUE, value |-> ZeroResults]

\* detectWithCloudflareAI: its catch turns the `not configured` failure into
\* a result with confidence 0
detectWithCloudflareAI(videoSamples, meta, e) ==
  IF ~e.AI
  THEN Returned(PushDetail(ZeroResults, MsgCloudflareError))
  ELSE Returned([PushDetail(ZeroResults, MsgCloudflare)
                   EXCEPT !["confidence"] = ConfPreferred])

\* metadata.extractedFrames || [] : the number of frames attached
ExtractedFrames(meta) ==
  IF "extractedFrames" \in DOMAIN meta THEN meta["extractedFrames"] ELSE 0

\* what the callback given to map resolves to for one frame: the frame's
\* result, or null when analyzeFrameWithHF threw (caught in the callback)
NullResult ==
  [isNull |-> TRUE, frameIndex |-> 0 - 1, rawResult |-> "", issues |-> ZeroIssues]

\* mutant: a frame that failed with HTTP 503 is kept as a result without issues
FrameResultOfKeep503(index, st) ==
  IF st.state = "ok"
  THEN [isNull |-> FALSE, frameIndex |-> index, rawResult |-> st.reply,
        issues |-> ParsedReply[st.reply]]
  ELSE IF st.state = "failed" /\ st.error = "unavailable503"
  THEN [isNull |-> FALSE, frameIndex |-> index, rawResult |-> "", issues |-> ZeroIssues]
  ELSE NullResult

FrameResultOf(index, st) ==
  IF st.state = "ok"
  THEN [isNull |-> FALSE, frameIndex |-> index, rawResult |-> st.reply,
        issues |-> ParsedReply[st.reply]]
  ELSE NullResult

\* await Promise.all(...): the results in the order of the frames
FrameResults(status) == [i \in 1..Len(status) |-> FrameResultOf(i - 1, status[i])]

\* r => r !== null
NotNull(r) == ~r.isNull

\* mutant: the results are collected last frame first
ValidResultsReversed(status) ==
  LET kept == SelectSeq(FrameResults(status), NotNull)
  IN  [j \in 1..Len(kept) |-> kept[Len(kept) + 1 - j]]

\* frameResults.filter(r => r !== null)
ValidResults(status) == SelectSeq(FrameResults(status), NotNull)

\* mutant: a race, resolved by the first callback that has
AnySettled(status) ==
  Len(status) = 0 \/ \E i \in 1..Len(status) : status[i].state # "pending"

\* Promise.all has resolved: every callback has
AllSettled(status) == \A i \in 1..Len(status) : status[i].state # "pending"

\* mutant: the frames are submitted without looking at the API key
SubmittedWithoutKey(meta, e) == Min(ExtractedFrames(meta), FrameLimit)

\* mutant: every supplied frame is taken
SliceAllFrames(count) == [i \in 1..count |-> i]

\* videoFrames.slice(0, 5), of count supplied frames: the first five at most
SliceFrames(count) == [i \in 1..Min(count, FrameLimit) |-> i]

\* videoFrames.slice(0, 5).length when the frames are classified, else 0
Submitted(meta, e) ==
  IF e.HF_API_KEY # "" /\ ExtractedFrames(meta) > 0
  THEN Len(SliceFrames(ExtractedFrames(meta)))
  ELSE 0

\* the try block of detectWithHuggingFace, from the settled frame
\* classifications on
HuggingFaceResults(videoSamples, meta, e, status) ==
  LET features == extractFeaturesAI(videoSamples, meta)
      ruleBasedResults == ruleBasedDetectionAI(features, meta)
      validResults == ValidResults(status)
      classified == e.HF_API_KEY # "" /\ ExtractedFrames(meta) > 0
      aggregated == classified /\ Len(validResults) > 0
      afterFrames ==
        IF aggregated
        THEN PushDetail(
               [ObjectAssign(ZeroResults, aggregateFrameResults(validResults))
                  EXCEPT !["confidence"] = Max(@, ConfFrames)],
               MsgAnalysed(Len(validResults)))
        ELSE IF e.HF_API_KEY # "" /\ ~classified
        THEN PushDetail(ZeroResults, MsgNoFrames)
        ELSE ZeroResults
      merged == [ObjectAssign(afterFrames, ruleBasedResults)
                   EXCEPT !["confidence"] = ConfSecondary]
  IN  [threw |-> FALSE,
       value |-> PushDetail(PushDetail(merged, MsgRuleAndData), MsgFFmpeg),
       aggregatorCalls |-> IF aggregated THEN <<validResults>> ELSE <<>>]

\* mutant: no catch in the callback nor in the routine, a frame's failure
\* rejects Promise.all and leaves the routine
detectWithHuggingFaceUncaught(videoSamples, meta, e, status) ==
  IF \E i \in 1..Len(status) : status[i].state = "failed"
  THEN [threw |-> TRUE, value |-> ZeroResults, aggregatorCalls |-> <<>>]
  ELSE HuggingFaceResults(videoSamples, meta, e, status)

\* detectWithHuggingFace.  No statement of its try block throws (the
\* callbacks catch what analyzeFrameWithHF throws), so its own catch, which
\* would return results with confidence 0, handles nothing.
detectWithHuggingFace(videoSamples, meta, e, status) ==
  HuggingFaceResults(videoSamples, meta, e, status)

\* ------------------------------------------------------ detectVideoIssues

\* mutant: the checker's strings are pushed, the flag is left alone
MergeCorruptionDetailsOnly(check) ==
  [issues |-> ZeroIssues,
   details |-> IF check.hasIssue THEN check.issues ELSE <<>>]

\* lines 173-176: the corruption check is merged first
MergeCorruption(check) ==
  IF check.hasIssue
  THEN [issues |-> [ZeroIssues EXCEPT !["corruption"] = TRUE],
        details |-> check.issues]
  ELSE [issues |-> ZeroIssues, details |-> <<>>]

\* mutant: the result's own (flat) keys are merged
MergeIssuesFlat(iss, result) == ObjectAssign(iss, result)

\* Object.assign(issues, result.issues || {})
MergeIssues(iss, result) == ObjectAssign(iss, IssuesOrEmpty(result))

\* the rule engine run by detectVideoIssues itself (AI disabled, or fallback)
RuleReport(iss, det, videoSamples, meta, lastDetail, confidence) ==
  LET features == extractFeatures(videoSamples, meta)
      ruleBasedResults == ruleBasedDetection(features, meta)
  IN  [issues |-> MergeIssues(iss, ruleBasedResults),
       details |-> det \o DetailsOrEmpty(ruleBasedResults) \o <<lastDetail>>,
       confidence |-> confidence]

\* mutant: the fallback's block in place of the AI-disabled block
RuleOnlyAsFallback(iss, det, videoSamples, meta) ==
  RuleReport(iss, det, videoSamples, meta, MsgFallback, ConfFallback)

\* lines 179-190
RuleOnlyReport(iss, det, videoSamples, meta) ==
  RuleReport(iss, det, videoSamples, meta, MsgAIDisabled, ConfRuleOnly)

\* lines 218-231: the catch of the AI attempt
FallbackReport(iss, det, videoSamples, meta) ==
  RuleReport(iss, det, videoSamples, meta, MsgFallback, ConfFallback)

\* lines 193-216 and 218-231: the routine's result merged, or the fallback
AIAttemptReport(iss, det, outcome, dflt, videoSamples, meta) ==
  IF outcome.threw
  THEN FallbackReport(iss, det, videoSamples, meta)
  ELSE [issues |-> MergeIssues(iss, outcome.value),
        details |-> det \o DetailsOrEmpty(outcome.value),
        confidence |-> ConfidenceOr(outcome.value, dflt)]

\* ---------------------------------------------------------------- actions

\* handleVideoDetection, lines 57-100: the video is taken from the upload
\* unless it is larger than maxSize, or else from the URL if the fetch
\* answered ok
Accepted(req) ==
  /\ req.isForm
  /\ \/ req.source = "file" /\ ~(req.buffer.byteLength > MaxSize)
     \/ req.source = "url" /\ req.fetchOk

\* handleVideoDetection, lines 47-49 and 144-155: request.formData() throws,
\* the catch answers with status 500
FailRequest ==
  /\ pc = "Received"
  /\ ~request.isForm
  /\ response' = [status |-> 500]
  /\ pc' = "Failed"
  /\ UNCHANGED <<client, fnArgs, fnResult, request, env, metadata, corruptionCheck, samples,
                 issues, details, frameStatus, aggregatorCalls, report>>

\* handleVideoDetection, lines 62-69, 83-90, 92-99: the early returns
RejectRequest ==
  /\ pc = "Received"
  /\ request.isForm
  /\ ~Accepted(request)
  /\ response' = [status |-> 400]
  /\ pc' = "Rejected"
  /\ UNCHANGED <<client, fnArgs, fnResult, request, env, metadata, corruptionCheck, samples,
                 issues, details, frameStatus, aggregatorCalls, report>>

\* handleVideoDetection, lines 57-122: the video accepted, then metadata,
\* corruption check, samples
HandleRequest ==
  /\ pc = "Received"
  /\ Accepted(request)
  /\ LET analysis == analyzeVideoMetadata(request.buffer, request.mimeType)
     IN  metadata' = IF request.useAI
                     THEN ObjectAssign(analysis, [extractedFrames |-> request.frames])
                     ELSE analysis
  /\ corruptionCheck' = detectCorruption(request.buffer)
  /\ samples' = SampleTable[request.buffer]
  /\ pc' = "Start"
  /\ UNCHANGED <<client, fnArgs, fnResult, request, env, issues, details, frameStatus, aggregatorCalls,
                 report, response>>

\* detectVideoIssues, lines 162-176
CheckCorruption ==
  /\ pc = "Start"
  /\ issues' = MergeCorruption(corruptionCheck).issues
  /\ details' = MergeCorruption(corruptionCheck).details
  /\ pc' = "CorruptionChecked"
  /\ UNCHANGED <<client, fnArgs, fnResult, request, env, metadata, corruptionCheck, samples, frameStatus,
                 aggregatorCalls, report, response>>

\* mutant: the secondary capability is tried first when it has an API key
SelectModeKeyFirst ==
  /\ pc = "CorruptionChecked"
  /\ pc' = IF ~request.useAI THEN "RuleOnly"
           ELSE IF env.HF_API_KEY # "" \/ ~env.AI THEN "Secondary"
           ELSE "Preferred"
  /\ UNCHANGED <<client, fnArgs, fnResult, request, env, metadata, corruptionCheck, samples, issues,
                 details, frameStatus, aggregatorCalls, report, response>>

\* lines 179, 195, 207: which detector runs
SelectMode ==
  /\ pc = "CorruptionChecked"
  /\ pc' = IF ~request.useAI THEN "RuleOnly"
           ELSE IF env.AI THEN "Preferred"
           ELSE "Secondary"
  /\ UNCHANGED <<client, fnArgs, fnResult, request, env, metadata, corruptionCheck, samples, issues,
                 details, frameStatus, aggregatorCalls, report, response>>

\* mutant: no return at the end of the AI-disabled block: the report is made
\* and the AI attempt follows
RunRuleOnlyFallsThrough ==
  /\ pc = "RuleOnly"
  /\ report' = RuleOnlyReport(issues, details, samples, metadata)
  /\ issues' = report'.issues
  /\ details' = report'.details
  /\ pc' = IF env.AI THEN "Preferred" ELSE "Secondary"
  /\ UNCHANGED <<client, fnArgs, fnResult, request, env, metadata, corruptionCheck, samples, frameStatus,
                 aggregatorCalls, response>>

\* lines 180-189
RunRuleOnly ==
  /\ pc = "RuleOnly"
  /\ report' = RuleOnlyReport(issues, details, samples, metadata)
  /\ issues' = report'.issues
  /\ details' = report'.details
  /\ pc' = "Done"
  /\ UNCHANGED <<client, fnArgs, fnResult, request, env, metadata, corruptionCheck, samples, frameStatus,
                 aggregatorCalls, response>>

\* lines 195-205
RunPreferred ==
  /\ pc = "Preferred"
  /\ report' = AIAttemptReport(issues, details,
                               detectWithCloudflareAI(samples, metadata, env),
                               ConfPreferred, samples, metadata)
  /\ issues' = report'.issues
  /\ details' = report'.details
  /\ pc' = "Done"
  /\ UNCHANGED <<client, fnArgs, fnResult, request, env, metadata, corruptionCheck, samples, frameStatus,
                 aggregatorCalls, response>>

\* line 208 and aiDetector.js lines 10-51: detectWithHuggingFace is entered;
\* with an API key and frames, the first FrameLimit frames are submitted
BeginSecondary ==
  /\ pc = "Secondary"
  /\ frameStatus' = [i \in 1..Submitted(metadata, env) |->
                        Pending(SliceFrames(ExtractedFrames(metadata))[i])]
  /\ pc' = "Classifying"
  /\ UNCHANGED <<client, fnArgs, fnResult, request, env, metadata, corruptionCheck, samples, issues,
                 details, aggregatorCalls, report, response>>

\* analyzeFrameWithHF returns for one frame: the capability replied
FrameSucceeds ==
  /\ pc = "Classifying"
  /\ \E i \in 1..Len(frameStatus) : \E id \in ReplyIds :
        /\ frameStatus[i].state = "pending"
        /\ frameStatus' =
             [frameStatus EXCEPT ![i] = [@ EXCEPT !.state = "ok", !.reply = id]]
  /\ UNCHANGED <<client, pc, fnArgs, fnResult, request, env, metadata, corruptionCheck, samples, issues,
                 details, aggregatorCalls, report, response>>

\* analyzeFrameWithHF throws for one frame
FrameFails ==
  /\ pc = "Classifying"
  /\ \E i \in 1..Len(frameStatus) : \E err \in FrameErrors :
        /\ frameStatus[i].state = "pending"
        /\ frameStatus' =
             [frameStatus EXCEPT ![i] = [@ EXCEPT !.state = "failed", !.error = err]]
  /\ UNCHANGED <<client, pc, fnArgs, fnResult, request, env, metadata, corruptionCheck, samples, issues,
                 details, aggregatorCalls, report, response>>

\* aiDetector.js lines 53-73 and index.js lines 209-216 (or 218-231)
JoinSecondary ==
  /\ pc = "Classifying"
  /\ AllSettled(frameStatus)
  /\ LET outcome == detectWithHuggingFace(samples, metadata, env, frameStatus)
     IN  /\ aggregatorCalls' = outcome.aggregatorCalls
         /\ report' = AIAttemptReport(issues, details, outcome, ConfSecondary,
                                      samples, metadata)
  /\ issues' = report'.issues
  /\ details' = report'.details
  /\ pc' = "Done"
  /\ UNCHANGED <<client, fnArgs, fnResult, request, env, metadata, corruptionCheck, samples, frameStatus,
                 response>>

\* mutant: usedAI tells whether the AI contributed (a frame was classified)
RespondActualAI ==
  /\ pc = "Done"
  /\ response' = [status |-> 200,
                  success |-> TRUE,
                  results |-> ObjectAssign(report,
                                [usedAI |-> request.useAI /\ aggregatorCalls # <<>>]),
                  metadata |-> [size |-> metadata.size,
                                codec |-> metadata.codec,
                                mimeType |-> metadata.mimeType],
                  sampleCount |-> Len(samples)]
  /\ pc' = "Responded"
  /\ UNCHANGED <<client, fnArgs, fnResult, request, env, metadata, corruptionCheck, samples, issues,
                 details, frameStatus, aggregatorCalls, report>>

\* handleVideoDetection, lines 127-143
Respond ==
  /\ pc = "Done"
  /\ response' = [status |-> 200,
                  success |-> TRUE,
                  results |-> ObjectAssign(report, [usedAI |-> request.useAI]),
                  metadata |-> [size |-> metadata.size,
                                codec |-> metadata.codec,
                                mimeType |-> metadata.mimeType],
                  sampleCount |-> Len(samples)]
  /\ pc' = "Responded"
  /\ UNCHANGED <<client, fnArgs, fnResult, request, env, metadata, corruptionCheck, samples, issues,
                 details, frameStatus, aggregatorCalls, report>>

Next ==
  \/ HandleRequest
  \/ CheckCorruption
  \/ SelectMode
  \/ RunRuleOnly
  \/ RunPreferred
  \/ BeginSecondary
  \/ FrameSucceeds
  \/ FrameFails
  \/ JoinSecondary
  \/ Respond

Spec == Init /\ [][Next]_vars

\* ------------------------------------- aggregateFrameResults on its own

\* the issue vectors a frame result may carry
FrameIssueChoices ==
  { ZeroIssues,
    [ZeroIssues EXCEPT !["glitch"] = TRUE, !["corruption"] = TRUE],
    [k \in IssueKinds |-> k # "corruption"] }

\* every sequence of up to MaxAggFrames frame results
FrameResultLists ==
  UNION { [1..n -> FrameIssueChoices] : n \in 0..MaxAggFrames }

AsFrameResults(vectors) ==
  [i \in 1..Len(vectors) |->
     [isNull |-> FALSE, frameIndex |-> i - 1, rawResult |-> "", issues |-> vectors[i]]]

IdleRequest ==
  [isForm |-> TRUE, hasFile |-> FALSE, hasUrl |-> FALSE,
   source |-> "none", fetchOk |-> FALSE,
   buffer |-> Buf(0, <<>>, 200, 0, 0), mimeType |-> "video/mp4",
   useAIField |-> "false", useAI |-> FALSE,
   frames |-> 0]

IdleEnv == [AI |-> FALSE, HF_API_KEY |-> ""]

InitAggregate ==
  /\ client = PageLoaded
  /\ pc = "AggregateCall"
  /\ \E vectors \in FrameResultLists : fnArgs = AsFrameResults(vectors)
  /\ fnResult = ZeroIssues
  /\ request = IdleRequest
  /\ env = IdleEnv
  /\ metadata = NoMetadata
  /\ corruptionCheck = NoCorruptionCheck
  /\ samples = <<>>
  /\ issues = ZeroIssues
  /\ details = <<>>
  /\ frameStatus = <<>>
  /\ aggregatorCalls = <<>>
  /\ report = NoReport
  /\ response = NoResponse

CallAggregate ==
  /\ pc = "AggregateCall"
  /\ fnResult' = aggregateFrameResults(fnArgs)
  /\ pc' = "AggregateDone"
  /\ UNCHANGED <<client, fnArgs, request, env, metadata, corruptionCheck, samples, issues,
                 details, frameStatus, aggregatorCalls, report, response>>

NextAggregate == CallAggregate

SpecAggregate == InitAggregate /\ [][NextAggregate]_vars

\* ================================================================= claims

\* detectVideoIssues has returned its report
Returned0 == pc \in {"Done", "Responded"}

RuleOnlyPath == ~request.useAI

PreferredPath == request.useAI /\ env.AI

SecondaryPath == request.useAI /\ ~env.AI

\* the rule engine's verdict on the request, by the copy the path runs
RuleVerdict ==
  IF SecondaryPath
  THEN ruleBasedDetectionAI(extractFeaturesAI(samples, metadata), metadata)
  ELSE ruleBasedDetection(extractFeatures(samples, metadata), metadata)

FramesOk == {i \in 1..Len(frameStatus) : frameStatus[i].state = "ok"}

FramesFailed == {i \in 1..Len(frameStatus) : frameStatus[i].state = "failed"}

\* a frame classification threw during the AI attempt
FailureRaised == FramesFailed # {}

\* C1: on every path that runs the rule engine (AI disabled, secondary
\* capability), each of glitch, corruption, stutter that the rule engine sets
\* true is true in the report detectVideoIssues returns.
C1_RuleIssuesReachReport ==
  (Returned0 /\ (RuleOnlyPath \/ SecondaryPath)) =>
     \A k \in {"glitch", "corruption", "stutter"} :
        RuleVerdict[k] => report.issues[k]

\* C2: whenever detectCorruption reports hasIssue (as it does for every
\* buffer below 1024 bytes), the corruption flag is true and the details begin
\* with the checker's issue strings, from the merge on and in the report, on
\* every path.
C2_CorruptionAlwaysMerged ==
  /\ (pc # "Received" /\ request.buffer.byteLength < MinFileBytes)
        => corruptionCheck.hasIssue
  /\ (pc \notin {"Received", "Start"} /\ corruptionCheck.hasIssue)
        => /\ issues["corruption"] = TRUE
           /\ IsPrefix(corruptionCheck.issues, details)
  /\ (Returned0 /\ corruptionCheck.hasIssue)
        => /\ report.issues["corruption"] = TRUE
           /\ IsPrefix(corruptionCheck.issues, report.details)

\* C2 witness: a 500-byte buffer with the MP4 magic (the rule engine's own
\* corruption flag is false) went through the secondary capability with a
\* classified frame.
C2_Witness ==
  /\ Returned0 /\ SecondaryPath
  /\ request.buffer.byteLength = 500 /\ metadata.codec = "MP4"
  /\ corruptionCheck.hasIssue
  /\ FramesOk # {}
  /\ report.issues["corruption"] = TRUE

\* C3: on the secondary path with a classified frame, every issue kind the
\* aggregator sets true is true in the report.
C3_AggregatedIssuesReachReport ==
  (Returned0 /\ SecondaryPath /\ aggregatorCalls # <<>>) =>
     \A k \in IssueKinds :
        aggregateFrameResults(aggregatorCalls[1])[k] => report.issues[k]

\* C4: on the secondary path the report's confidence is 0.85 when a frame
\* classification succeeded and 0.7 when none did.
C4_ConfidenceFloor ==
  (Returned0 /\ SecondaryPath) =>
     report.confidence = IF FramesOk # {} THEN ConfFrames ELSE ConfSecondary

\* the frames of fnArgs whose issue k is true, counted apart from the model
TrueCount(k) == Cardinality({i \in 1..Len(fnArgs) : fnArgs[i].issues[k] = TRUE})

\* C5: aggregateFrameResults sets kind k true iff the frames reporting k are
\* strictly more than 0.3 * N, i.e. 10 * count > 3 * N; all false for N = 0.
C5_VoteThreshold ==
  pc = "AggregateDone" =>
     /\ DOMAIN fnResult = IssueKinds
     /\ \A k \in IssueKinds :
           fnResult[k] <=> (10 * TrueCount(k) > 3 * Len(fnArgs))
     /\ Len(fnArgs) = 0 => fnResult = ZeroIssues

\* C5 witness: 10 frame results, exactly 3 with glitch, aggregated glitch false
C5_Witness ==
  /\ pc = "AggregateDone"
  /\ Len(fnArgs) = 10
  /\ TrueCount("glitch") = 3
  /\ fnResult["glitch"] = FALSE

\* C6: with the AI flag false the report has confidence 0.6 and the AI-disabled
\* marker as its last detail, whatever the buffer and the env; no frame is
\* classified.
C6_RuleOnlyWhenAIDisabled ==
  (Returned0 /\ ~request.useAI) =>
     /\ report.confidence = ConfRuleOnly
     /\ Len(report.details) > 0
     /\ Last(report.details) = MsgAIDisabled
     /\ frameStatus = <<>>
     /\ aggregatorCalls = <<>>

\* C6 witness: AI disabled although both capabilities are configured and
\* frames were supplied, on the 2 MB MP4 buffer
C6_Witness ==
  /\ Returned0 /\ ~request.useAI
  /\ env.AI /\ env.HF_API_KEY # "" /\ request.frames > 0
  /\ request.buffer.byteLength = 2000000 /\ metadata.codec = "MP4"
  /\ report.confidence = ConfRuleOnly

\* every submitted frame classification failed, and there was at least one
AllFramesFailed ==
  /\ Len(frameStatus) > 0
  /\ \A i \in 1..Len(frameStatus) : frameStatus[i].state = "failed"

\* C7: AI enabled, secondary capability with an API key and at least one frame,
\* every classification fails: no fallback (confidence 0.7, no fallback
\* message), the aggregator is not called and every true issue of the report
\* comes from the corruption check or the rule engine.
C7_AllFramesDroppedNoFallback ==
  (Returned0 /\ SecondaryPath /\ env.HF_API_KEY # "" /\ request.frames >= 1
      /\ AllFramesFailed) =>
     /\ report.confidence = ConfSecondary
     /\ ~Contains(report.details, MsgFallback)
     /\ aggregatorCalls = <<>>
     /\ \A k \in IssueKinds :
           report.issues[k] =>
              \/ k = "corruption" /\ corruptionCheck.hasIssue
              \/ RuleVerdict[k]

\* C7 witness: five frames submitted, all failed, the report returned
C7_Witness ==
  /\ Returned0 /\ SecondaryPath /\ env.HF_API_KEY # ""
  /\ request.frames = 5 /\ Len(frameStatus) = 5
  /\ AllFramesFailed
  /\ report.confidence = ConfSecondary

EveryFrameCompleted ==
  \A i \in 1..Len(frameStatus) : frameStatus[i].state \in {"ok", "failed"}

\* C9: the aggregator is called only once every submitted classification has
\* completed, with exactly the results of the successful frames (in frame
\* order); failed frames abort neither the others nor the run.
C9_WaitForAllJoin ==
  /\ aggregatorCalls # <<>> =>
        /\ EveryFrameCompleted
        /\ Len(aggregatorCalls) = 1
        /\ LET passed == aggregatorCalls[1]
           IN  /\ Len(passed) = Cardinality(FramesOk)
               /\ {passed[j].frameIndex + 1 : j \in 1..Len(passed)} = FramesOk
               /\ \A j \in 1..Len(passed) :
                     /\ ~passed[j].isNull
                     /\ passed[j].issues =
                           parseModelOutput(Reply(frameStatus[passed[j].frameIndex + 1].reply))
               /\ \A j \in 1..(Len(passed) - 1) :
                     passed[j].frameIndex < passed[j + 1].frameIndex
  /\ (Returned0 /\ SecondaryPath) =>
        /\ EveryFrameCompleted
        /\ Len(frameStatus) = Submitted(metadata, env)
        /\ (FramesOk # {}) => aggregatorCalls # <<>>
        /\ ~Contains(report.details, MsgFallback)

\* C9 witness: five frames, some failed and some classified, aggregator called
C9_Witness ==
  /\ Returned0 /\ Len(frameStatus) = 5
  /\ Cardinality(FramesFailed) = 2 /\ Cardinality(FramesOk) = 3
  /\ aggregatorCalls # <<>>
  /\ Len(aggregatorCalls[1]) = 3

\* the shape of a DetectionReport
ReportValid ==
  /\ DOMAIN report.issues = IssueKinds
  /\ \A k \in IssueKinds : report.issues[k] \in BOOLEAN
  /\ \A i \in 1..Len(report.details) : report.details[i] \in STRING
  /\ report.confidence \in 0..100

\* the steps a run can still take: the phases ahead, and the frames pending
\* (before the frames are submitted, the FrameLimit that may be)
PhasesLeft ==
  CASE pc = "Received" -> 6 + FrameLimit
    [] pc = "Start" -> 5 + FrameLimit
    [] pc = "CorruptionChecked" -> 4 + FrameLimit
    [] pc \in {"RuleOnly", "Preferred", "Secondary"} -> 3 + FrameLimit
    [] pc = "Classifying" -> 2
    [] pc = "Done" -> 1
    [] OTHER -> 0

StepsLeft ==
  PhasesLeft + Cardinality({i \in 1..Len(frameStatus) : frameStatus[i].state = "pending"})

\* C10: for every buffer (the empty one too), AI flag, env, frames and replies
\* of the capability, a run comes to its report in a bounded number of steps
\* (each step brings it nearer: nothing is retried or re-entered, no failure
\* is left to propagate), and the report's issues has exactly the five keys
\* with boolean values, its details are strings and its confidence is within
\* [0, 1].
C10_ValidReport ==
  /\ [](Returned0 => ReportValid)
  /\ [][StepsLeft' < StepsLeft]_vars

\* C10 witness: the empty buffer, AI enabled, frames classified
C10_Witness ==
  /\ Returned0 /\ request.buffer.byteLength = 0
  /\ SecondaryPath /\ FramesOk # {} /\ FramesFailed # {}
  /\ DOMAIN report.issues = IssueKinds

\* ------------------------------ scheduling of the secondary capability

\* The runs in which frames are submitted: AI requested, no preferred
\* capability, an API key, at least one frame.  What the buffer holds has no
\* part in the waiting, so two buffers stand for all (one the corruption check
\* flags, one it passes).
FairBuffers == { Buf(500, MP4Head, 200, 0, 0), Buf(2000000, MP4Head, 200000, 0, 0) }

InitFair ==
  /\ Init
  /\ request.buffer \in FairBuffers
  /\ request.useAI /\ request.frames >= 1
  /\ ~env.AI /\ env.HF_API_KEY # ""

\* the steps the Worker itself takes on these runs: once what a step awaits
\* is there, the runtime runs it
Orchestrate ==
  \/ HandleRequest
  \/ CheckCorruption
  \/ SelectMode
  \/ BeginSecondary
  \/ JoinSecondary
  \/ Respond

\* the replies of the capability are under no fairness: nothing in the code
\* makes a fetch complete
NextFair ==
  \/ Orchestrate
  \/ FrameSucceeds
  \/ FrameFails

SpecFair == InitFair /\ [][NextFair]_vars /\ WF_vars(Orchestrate)

\* the submitted classifications that have not completed
PendingFrames == {i \in 1..Len(frameStatus) : frameStatus[i].state = "pending"}

\* C11: the AI attempt is bounded by a timeout: if a frame classification
\* never completes, detectVideoIssues still returns in the end, by its
\* fallback (confidence 0.5).
C11_TimeoutTakesFallback ==
  <>[](PendingFrames # {}) => <>(Returned0 /\ report.confidence = ConfFallback)

\* C12: with AI requested and the preferred capability configured, the
\* secondary routine is never entered and no frame is submitted, whatever the
\* API key and the frames supplied; the report's confidence is 0.8 and its
\* last detail is the preferred capability's.
C12_PreferredExclusive ==
  PreferredPath =>
     /\ pc \notin {"RuleOnly", "Secondary", "Classifying"}
     /\ frameStatus = <<>>
     /\ aggregatorCalls = <<>>
     /\ Returned0 =>
           /\ report.confidence = ConfPreferred
           /\ Len(report.details) > 0
           /\ Last(report.details) = MsgCloudflare
           /\ ~Contains(report.details, MsgRuleAndData)

\* C12 witness: both capabilities configured, frames supplied, report returned
C12_Witness ==
  /\ Returned0 /\ PreferredPath
  /\ env.HF_API_KEY # "" /\ request.frames = 5
  /\ report.confidence = ConfPreferred

\* the rule engine's closing detail (colorShift and missingPerson need frame
\* image analysis), in the wording of either copy
HasRuleBaseline(det) ==
  Contains(det, MsgNeedFrames) \/ Contains(det, MsgNeedFramesAI)

\* C13: the rule engine runs on every detection run: on every path the
\* returned details hold its fixed detail about colorShift and missingPerson
\* needing frame image analysis, and every message of its verdict.
C13_RuleBaselineOnEveryPath ==
  Returned0 =>
     /\ HasRuleBaseline(report.details)
     /\ \A i \in 1..Len(RuleVerdict.details) :
           Contains(report.details, RuleVerdict.details[i])

\* what the secondary routine pushes before it merges the rule results: the
\* number of frames analysed, or the hint that no frame images came
EmittedBeforeMerge ==
  IF env.HF_API_KEY = "" THEN <<>>
  ELSE IF ExtractedFrames(metadata) = 0 THEN <<MsgNoFrames>>
  ELSE IF FramesOk # {} THEN <<MsgAnalysed(Cardinality(FramesOk))>>
  ELSE <<>>

\* every detail the stages of the path taken emit, in emission order
EmittedDetails ==
  IF RuleOnlyPath THEN RuleVerdict.details \o <<MsgAIDisabled>>
  ELSE IF PreferredPath THEN <<MsgCloudflare>>
  ELSE EmittedBeforeMerge \o RuleVerdict.details \o <<MsgRuleAndData, MsgFFmpeg>>

\* C14: the returned details are the corruption check's strings followed by
\* every detail the rule and AI stages of the path emitted, in emission order,
\* none dropped; so what the secondary capability pushed before the rule merge
\* (frames analysed, or no frame images) is among them.
C14_DetailsKeepEveryMessage ==
  Returned0 =>
     /\ report.details = corruptionCheck.issues \o EmittedDetails
     /\ \A i \in 1..Len(EmittedBeforeMerge) :
           SecondaryPath => Contains(report.details, EmittedBeforeMerge[i])

\* C15: usedAI in the returned results is the AI flag the caller asked for
\* (the form field useAI being exactly 'true'), whichever capability was there,
\* whether or not a frame was classified; the other fields of the results are
\* the report's.
C15_UsedAIIsRequestedMode ==
  pc = "Responded" =>
     /\ response.status = 200
     /\ response.results["usedAI"] = (request.useAIField = "true")
     /\ \A k \in DOMAIN report : response.results[k] = report[k]

\* C15 witness: AI asked for, every frame failed, usedAI is true all the same
C15_Witness ==
  /\ pc = "Responded"
  /\ request.useAIField = "true"
  /\ SecondaryPath /\ AllFramesFailed
  /\ aggregatorCalls = <<>>
  /\ response.results["usedAI"] = TRUE

\* the report is the rule engine's: after the corruption strings, its details
\* and the closing messages of the block that ran it
RuleBasedReport ==
  /\ report.details =
        corruptionCheck.issues \o RuleVerdict.details
           \o (IF RuleOnlyPath THEN <<MsgAIDisabled>> ELSE <<MsgRuleAndData, MsgFFmpeg>>)
  /\ report.confidence = IF RuleOnlyPath THEN ConfRuleOnly ELSE ConfSecondary

MaxShortLen == 9

\* sample counts 1..MaxSampleCount are among the inputs (and the Worker's 10)
MaxSampleCount == 3

\* the first four bytes: "RIFF", the EBML magic, zeros, "RIFX"
FirstWords == { <<82, 73, 70, 70>>, <<26, 69, 223, 163>>, <<0, 0, 0, 0>>, <<82, 73, 70, 88>> }

\* bytes 4..7: "ftyp", zeros, "ftyq"
SecondWords == { <<102, 116, 121, 112>>, <<0, 0, 0, 0>>, <<102, 116, 121, 113>> }

ProcessorHeads == { w \o t : w \in FirstWords, t \in SecondWords }

\* the lengths: the short ones (a header cut off), and those around the
\* minimum file size
ProcessorLengths ==
  (0..MaxShortLen) \cup {MinFileBytes - 1, MinFileBytes, MinFileBytes + 1}

\* a buffer of len bytes is the first len bytes of head followed by zeros
ProcessorBuffers ==
  { Buf(len, SubSeq(head, 1, Min(len, Len(head))), 200, 0, 0) :
       len \in ProcessorLengths, head \in ProcessorHeads }

MimeTypes == {"video/mp4", "video/webm", "application/octet-stream"}

ProcessorArgs ==
  [buffer : ProcessorBuffers, mimeType : MimeTypes,
   sampleCount : (1..MaxSampleCount) \cup {SampleCount}]

\* the variables of a request, while a function is called on its own
Idle ==
  /\ client = PageLoaded
  /\ request = IdleRequest
  /\ env = IdleEnv
  /\ metadata = NoMetadata
  /\ corruptionCheck = NoCorruptionCheck
  /\ samples = <<>>
  /\ issues = ZeroIssues
  /\ details = <<>>
  /\ frameStatus = <<>>
  /\ aggregatorCalls = <<>>
  /\ report = NoReport
  /\ response = NoResponse

InitProcessor ==
  /\ pc = "ProcessorCall"
  /\ fnArgs \in ProcessorArgs
  /\ fnResult = <<>>
  /\ Idle

CallAnalyzeVideoMetadata ==
  /\ pc = "ProcessorCall"
  /\ fnResult' = analyzeVideoMetadata(fnArgs.buffer, fnArgs.mimeType)
  /\ pc' = "MetadataDone"
  /\ UNCHANGED <<client, fnArgs, request, env, metadata, corruptionCheck, samples, issues,
                 details, frameStatus, aggregatorCalls, report, response>>

CallDetectCorruption ==
  /\ pc = "ProcessorCall"
  /\ fnResult' = detectCorruption(fnArgs.buffer)
  /\ pc' = "CorruptionDone"
  /\ UNCHANGED <<client, fnArgs, request, env, metadata, corruptionCheck, samples, issues,
                 details, frameStatus, aggregatorCalls, report, response>>

CallSampleVideoData ==
  /\ pc = "ProcessorCall"
  /\ fnResult' = sampleVideoData(fnArgs.buffer, fnArgs.sampleCount)
  /\ pc' = "SamplesDone"
  /\ UNCHANGED <<client, fnArgs, request, env, metadata, corruptionCheck, samples, issues,
                 details, frameStatus, aggregatorCalls, report, response>>

NextProcessor ==
  \/ CallAnalyzeVideoMetadata
  \/ CallDetectCorruption
  \/ CallSampleVideoData

SpecProcessor == InitProcessor /\ [][NextProcessor]_vars

\* bytes lo..lo+3 of the buffer are the four of word (a buffer that ends before
\* lo+3 has no such bytes)
HasWordAt(b, lo, word) ==
  /\ b.byteLength >= lo + 4
  /\ \A j \in 0..3 : ByteAt(b, lo + j) = word[j + 1]

\* the codec the magic bytes of the buffer call for, in the priority MP4, AVI,
\* WebM
ExpectedCodec(b) ==
  IF HasWordAt(b, 4, <<102, 116, 121, 112>>) THEN "MP4"
  ELSE IF HasWordAt(b, 0, <<82, 73, 70, 70>>) THEN "AVI"
  ELSE IF HasWordAt(b, 0, <<26, 69, 223, 163>>) THEN "WebM"
  ELSE "null"

\* C17: analyzeVideoMetadata gives MP4 for 'ftyp' at bytes 4..7, else AVI for
\* 'RIFF' at bytes 0..3, else WebM for 1A 45 DF A3 at bytes 0..3, else null, in
\* that priority; a buffer shorter than 8 bytes gets a result like any other
\* (null, AVI or WebM); size and mimeType are passed through and the codec does
\* not depend on the mime type.
C17_CodecByMagicBytes ==
  pc = "MetadataDone" =>
     /\ fnResult.codec = ExpectedCodec(fnArgs.buffer)
     /\ fnResult.size = fnArgs.buffer.byteLength
     /\ fnResult.mimeType = fnArgs.mimeType
     /\ \A m \in MimeTypes :
           analyzeVideoMetadata(fnArgs.buffer, m).codec = fnResult.codec
     /\ fnArgs.buffer.byteLength < 8 => fnResult.codec \in {"null", "AVI", "WebM"}

\* C17 witness: 'RIFF' followed by 'ftyp', declared as WebM: MP4
C17_Witness ==
  /\ pc = "MetadataDone"
  /\ fnArgs.buffer.head = RiffFtypHead
  /\ fnArgs.buffer.byteLength = 8
  /\ fnArgs.mimeType = "video/webm"
  /\ fnResult.codec = "MP4"

\* C18: detectCorruption reports an issue exactly for the buffers below 1024
\* bytes and for those of at least 1024 bytes whose header matches none of the
\* three magic patterns; below 1024 bytes the header is not looked at and the
\* too-small message is the only entry; hasIssue is issues.length > 0.
C18_CorruptionCheck ==
  pc = "CorruptionDone" =>
     LET b == fnArgs.buffer
         small == b.byteLength < MinFileBytes
         noMagic == ExpectedCodec(b) = "null"
     IN  /\ fnResult.hasIssue = (small \/ noMagic)
         /\ small => fnResult.issues = <<MsgTooSmall>>
         /\ (~small /\ noMagic) => fnResult.issues = <<MsgBadHeader>>
         /\ (~small /\ ~noMagic) => fnResult.issues = <<>>
         /\ fnResult.hasIssue = (Len(fnResult.issues) > 0)

\* C18 witness: 1023 bytes with no magic pattern: one entry, the too-small one
C18_Witness ==
  /\ pc = "CorruptionDone"
  /\ fnArgs.buffer.byteLength = MinFileBytes - 1
  /\ ExpectedCodec(fnArgs.buffer) = "null"
  /\ fnResult.issues = <<MsgTooSmall>>

\* C19: sampleVideoData returns exactly sampleCount samples, in window order,
\* with offsets strictly increasing and evenly spaced by
\* floor(byteLength / sampleCount), for every buffer length and sampleCount >= 1.
C19_SampleOffsets ==
  pc = "SamplesDone" =>
     LET n == fnArgs.sampleCount
         step == fnArgs.buffer.byteLength \div n
     IN  /\ Len(fnResult) = n
         /\ \A i \in 1..n : fnResult[i].offset = (i - 1) * step
         /\ \A i \in 1..(n - 1) : fnResult[i].offset < fnResult[i + 1].offset

\* ------------------------------------- the two extractFeatures on their own

\* sample sequences of up to MaxSamples samples are among the inputs
MaxSamples == 4

\* the variances a sample may carry: of a flat window, of two uneven windows,
\* and NaN (the empty window of an empty buffer)
VarianceChoices == { Num(0), Num(2500 * Scale), Num(16256 * Scale), NaN }

SampleChoices ==
  { [offset |-> 0, mean |-> Num(0), variance |-> v, data |-> <<>>] :
       v \in VarianceChoices }

SampleLists == UNION { [1..n -> SampleChoices] : n \in 0..MaxSamples }

InitFeatures ==
  /\ pc = "FeaturesCall"
  /\ \E list \in SampleLists : fnArgs = [samples |-> list, metadata |-> NoMetadata]
  /\ fnResult = <<>>
  /\ Idle

\* extractFeatures of index.js
CallExtractFeatures ==
  /\ pc = "FeaturesCall"
  /\ fnResult' = extractFeatures(fnArgs.samples, fnArgs.metadata)
  /\ pc' = "FeaturesDone"
  /\ UNCHANGED <<client, fnArgs, request, env, metadata, corruptionCheck, samples, issues,
                 details, frameStatus, aggregatorCalls, report, response>>

\* extractFeatures of aiDetector.js
CallExtractFeaturesAI ==
  /\ pc = "FeaturesCall"
  /\ fnResult' = extractFeaturesAI(fnArgs.samples, fnArgs.metadata)
  /\ pc' = "FeaturesAIDone"
  /\ UNCHANGED <<client, fnArgs, request, env, metadata, corruptionCheck, samples, issues,
                 details, frameStatus, aggregatorCalls, report, response>>

NextFeatures ==
  \/ CallExtractFeatures
  \/ CallExtractFeaturesAI

SpecFeatures == InitFeatures /\ [][NextFeatures]_vars

\* maxVarianceChange bounds every consecutive delta, and is 0 for at most one
\* sample
MaxChangeBounds(list, features) ==
  /\ \A i \in 1..(Len(list) - 1) :
        AtLeast(features.maxVarianceChange,
                AbsDiff(list[i + 1].variance, list[i].variance))
  /\ Len(list) <= 1 => features.maxVarianceChange = Num(0)

\* C20: for either extractFeatures, maxVarianceChange is at least every
\* absolute difference of consecutive variances, and is 0 when there is at
\* most one sample.
C20_MaxVarianceChange ==
  pc \in {"FeaturesDone", "FeaturesAIDone"} => MaxChangeBounds(fnArgs.samples, fnResult)

\* ------------------------------- the two ruleBasedDetection on their own

\* a rational number n / d (in units of 1), as extractFeatures' division gives
Ratio(n, d) == [kind |-> "num", num |-> n * Scale, den |-> d]

\* varianceVolatility: below, at and just above 5000 (as a whole number and as
\* a quotient by 9, the count of changes between 10 samples), and NaN
VolatilityChoices ==
  { Num(0), Num(VolatilityThreshold * Scale), Num(VolatilityThreshold * Scale + 1),
    Ratio(9 * VolatilityThreshold, 9), Ratio(9 * VolatilityThreshold + 1, 9), NaN }

\* maxVarianceChange: below, at and above 10000, NaN, and the -Infinity of
\* aiDetector.js's extractFeatures
MaxChangeChoices ==
  { Num(0), Num(MaxChangeThreshold * Scale), Num(MaxChangeThreshold * Scale + 1),
    Num(16256 * Scale), NaN, NegInfinity }

\* metadata.codec: what analyzeVideoMetadata gives
Codecs == {"MP4", "AVI", "WebM", "null"}

RuleArgs ==
  { [features |-> [varianceVolatility |-> v, maxVarianceChange |-> m],
     metadata |-> [size |-> 2000, mimeType |-> "video/mp4", codec |-> c]] :
       v \in VolatilityChoices, m \in MaxChangeChoices, c \in Codecs }

InitRules ==
  /\ pc = "RulesCall"
  /\ fnArgs \in RuleArgs
  /\ fnResult = <<>>
  /\ Idle

\* ruleBasedDetection of index.js
CallRuleBasedDetection ==
  /\ pc = "RulesCall"
  /\ fnResult' = ruleBasedDetection(fnArgs.features, fnArgs.metadata)
  /\ pc' = "RulesDone"
  /\ UNCHANGED <<client, fnArgs, request, env, metadata, corruptionCheck, samples, issues,
                 details, frameStatus, aggregatorCalls, report, response>>

\* ruleBasedDetection of aiDetector.js
CallRuleBasedDetectionAI ==
  /\ pc = "RulesCall"
  /\ fnResult' = ruleBasedDetectionAI(fnArgs.features, fnArgs.metadata)
  /\ pc' = "RulesAIDone"
  /\ UNCHANGED <<client, fnArgs, request, env, metadata, corruptionCheck, samples, issues,
                 details, frameStatus, aggregatorCalls, report, response>>

NextRules ==
  \/ CallRuleBasedDetection
  \/ CallRuleBasedDetectionAI

SpecRules == InitRules /\ [][NextRules]_vars

\* a is a number strictly above the whole number c
StrictlyAbove(a, c) == a.kind = "num" /\ a.num > c * a.den * Scale

\* C21: for either ruleBasedDetection: glitch iff varianceVolatility > 5000,
\* stutter iff maxVarianceChange > 10000 (both false at equality), corruption
\* iff the codec is unknown, colorShift and missingPerson false, one detail per
\* true flag in the order glitch, corruption, stutter, and the fixed detail
\* about frame image analysis last.
C21_RuleThresholds ==
  pc \in {"RulesDone", "RulesAIDone"} =>
     LET glitch == StrictlyAbove(fnArgs.features.varianceVolatility, 5000)
         stutter == StrictlyAbove(fnArgs.features.maxVarianceChange, 10000)
         corruption == fnArgs.metadata.codec \notin {"MP4", "AVI", "WebM"}
         flagged == (IF glitch THEN <<MsgGlitch>> ELSE <<>>)
                    \o (IF corruption THEN <<MsgCodec>> ELSE <<>>)
                    \o (IF stutter THEN <<MsgStutter>> ELSE <<>>)
     IN  /\ fnResult.glitch = glitch
         /\ fnResult.stutter = stutter
         /\ fnResult.corruption = corruption
         /\ fnResult.colorShift = FALSE
         /\ fnResult.missingPerson = FALSE
         /\ Len(fnResult.details) = Len(flagged) + 1
         /\ SubSeq(fnResult.details, 1, Len(flagged)) = flagged
         /\ Last(fnResult.details) =
               IF pc = "RulesDone" THEN MsgNeedFrames ELSE MsgNeedFramesAI

\* C21 witness: volatility exactly 5000 (45000 / 9) and maxVarianceChange
\* exactly 10000, codec unknown: the codec detail and the fixed detail only
C21_Witness ==
  /\ pc = "RulesDone"
  /\ fnArgs.features.varianceVolatility = Ratio(9 * VolatilityThreshold, 9)
  /\ fnArgs.features.maxVarianceChange = Num(MaxChangeThreshold * Scale)
  /\ fnArgs.metadata.codec = "null"
  /\ fnResult.details = <<MsgCodec, MsgNeedFrames>>

\* --------------------------------------------- parseModelOutput on its own

\* array replies of up to MaxLabels items are among the inputs
MaxLabels == 2

LabelCorrupted == <<"C", "O", "R", "R", "U", "P", "T", "E", "D">>

LabelTerror == <<"t", "e", "r", "r", "o", "r">>

\* two labels that spell a keyword only when put together without a space
LabelGli == <<"g", "l", "i">>

LabelTch == <<"t", "c", "h">>

\* the empty label stands for an item (or object) without a label
LabelChoices ==
  { <<>>, LabelCat, LabelGlitch, LabelError, LabelCorrupted, LabelTerror,
    LabelGli, LabelTch }

\* JSON replies of the capability: an array of {label, score}, or one object
ModelReplies ==
  { ArrayReply(labels) :
       labels \in UNION { [1..n -> LabelChoices] : n \in 0..MaxLabels } }
  \cup { ObjectReply(label) : label \in LabelChoices }

InitParse ==
  /\ pc = "ParseCall"
  /\ fnArgs \in ModelReplies
  /\ fnResult = <<>>
  /\ Idle

CallParseModelOutput ==
  /\ pc = "ParseCall"
  /\ fnResult' = parseModelOutput(fnArgs)
  /\ pc' = "ParseDone"
  /\ UNCHANGED <<client, fnArgs, request, env, metadata, corruptionCheck, samples, issues,
                 details, frameStatus, aggregatorCalls, report, response>>

NextParse == CallParseModelOutput

SpecParse == InitParse /\ [][NextParse]_vars

\* the label text of a reply, lower-cased: the labels of an array joined by
\* spaces, or the label of the single object
LabelText(reply) ==
  IF reply.shape = "array"
  THEN toLowerCase(JoinLabels(reply.items))
  ELSE toLowerCase(reply.label)

HasKeyword(text) ==
  \/ includes(text, WordGlitch)
  \/ includes(text, WordCorrupt)
  \/ includes(text, WordError)

\* C22: for either reply shape, parseModelOutput sets glitch and corruption
\* both true iff the lower-cased label text contains 'glitch', 'corrupt' or
\* 'error'; stutter, colorShift and missingPerson are false; glitch equals
\* corruption.
C22_KeywordParse ==
  pc = "ParseDone" =>
     /\ fnResult.glitch = HasKeyword(LabelText(fnArgs))
     /\ fnResult.corruption = HasKeyword(LabelText(fnArgs))
     /\ fnResult.glitch = fnResult.corruption
     /\ ~fnResult.stutter /\ ~fnResult.colorShift /\ ~fnResult.missingPerson

\* ------------------------------------------------------------ claims, cont.

\* the same frame outcomes with the two kinds of failure exchanged
SwapErrors(status) ==
  [i \in 1..Len(status) |->
     IF status[i].state = "failed"
     THEN [status[i] EXCEPT !.error = IF @ = "unavailable503" THEN "requestError"
                                      ELSE "unavailable503"]
     ELSE status[i]]

\* what detectVideoIssues returns on the secondary path for the frame outcomes
\* status, from the corruption check on
SecondaryReport(status) ==
  AIAttemptReport(MergeCorruption(corruptionCheck).issues,
                  MergeCorruption(corruptionCheck).details,
                  detectWithHuggingFace(samples, metadata, env, status),
                  ConfSecondary, samples, metadata)

InitIngress ==
  /\ client = PageLoaded
  /\ pc = "Received"
  /\ request \in IngressRequests
  /\ env \in Envs
  /\ metadata = NoMetadata
  /\ corruptionCheck = NoCorruptionCheck
  /\ samples = <<>>
  /\ issues = ZeroIssues
  /\ details = <<>>
  /\ frameStatus = <<>>
  /\ aggregatorCalls = <<>>
  /\ report = NoReport
  /\ response = NoResponse
  /\ fnArgs = <<>>
  /\ fnResult = <<>>

NextIngress ==
  \/ FailRequest
  \/ RejectRequest
  \/ HandleRequest
  \/ CheckCorruption
  \/ SelectMode
  \/ RunRuleOnly
  \/ RunPreferred
  \/ BeginSecondary
  \/ FrameSucceeds
  \/ FrameFails
  \/ JoinSecondary
  \/ Respond

SpecIngress == InitIngress /\ [][NextIngress]_vars

\* nothing of the pipeline has run on the request
PipelineUntouched ==
  /\ metadata = NoMetadata
  /\ corruptionCheck = NoCorruptionCheck
  /\ samples = <<>>
  /\ report = NoReport
  /\ frameStatus = <<>>

\* C24: a request whose video is larger than 1024 MB, uploaded or given by
\* URL, is answered with status 400 and nothing of the pipeline runs on it; an
\* uploaded video of exactly 1024 MB is accepted.
C24_SizeLimit ==
  /\ (pc # "Received" /\ request.source \in {"file", "url"}
        /\ request.buffer.byteLength > 1024 * 1024 * 1024) =>
        /\ pc = "Rejected"
        /\ response.status = 400
        /\ PipelineUntouched
  /\ (pc # "Received" /\ request.source = "file"
        /\ request.buffer.byteLength = 1024 * 1024 * 1024) =>
        pc # "Rejected"

\* ----------------------------------- the rule engine called again and again

\* up to MaxCalls calls are made one after the other
MaxCalls == 3

\* the arguments the calls are made with
RepeatArgs ==
  { a \in RuleArgs :
       /\ a.features.varianceVolatility \in {Num(0), Num(VolatilityThreshold * Scale + 1)}
       /\ a.features.maxVarianceChange \in {Num(0), Num(16256 * Scale)}
       /\ a.metadata.codec \in {"MP4", "null"} }

\* fnArgs lists the calls made (which copy was called, and the caller's
\* argument objects as they are after the call), fnResult the objects returned
InitRepeat ==
  /\ pc = "RuleCalls"
  /\ fnArgs = <<>>
  /\ fnResult = <<>>
  /\ Idle

\* mutant: results is one object kept between the calls: the details pile up,
\* and the objects returned earlier are that same object
RepeatRuleBasedDetectionShared ==
  /\ pc = "RuleCalls"
  /\ Len(fnResult) < MaxCalls
  /\ \E a \in RepeatArgs :
        /\ fnArgs' = Append(fnArgs, [copy |-> "index.js", features |-> a.features,
                                     metadata |-> a.metadata])
        /\ LET kept == IF fnResult = <<>> THEN <<>> ELSE Last(fnResult).details
               results == [ruleBasedDetection(a.features, a.metadata)
                             EXCEPT !.details = kept \o @]
           IN  fnResult' = [i \in 1..(Len(fnResult) + 1) |-> results]
  /\ UNCHANGED <<client, pc, request, env, metadata, corruptionCheck, samples, issues,
                 details, frameStatus, aggregatorCalls, report, response>>

\* ruleBasedDetection of index.js: results is a new object in every call;
\* features and metadata are only read
RepeatRuleBasedDetection ==
  /\ pc = "RuleCalls"
  /\ Len(fnResult) < MaxCalls
  /\ \E a \in RepeatArgs :
        /\ fnArgs' = Append(fnArgs, [copy |-> "index.js", features |-> a.features,
                                     metadata |-> a.metadata])
        /\ fnResult' = Append(fnResult, ruleBasedDetection(a.features, a.metadata))
  /\ UNCHANGED <<client, pc, request, env, metadata, corruptionCheck, samples, issues,
                 details, frameStatus, aggregatorCalls, report, response>>

\* ruleBasedDetection of aiDetector.js, likewise
RepeatRuleBasedDetectionAI ==
  /\ pc = "RuleCalls"
  /\ Len(fnResult) < MaxCalls
  /\ \E a \in RepeatArgs :
        /\ fnArgs' = Append(fnArgs, [copy |-> "aiDetector.js", features |-> a.features,
                                     metadata |-> a.metadata])
        /\ fnResult' = Append(fnResult, ruleBasedDetectionAI(a.features, a.metadata))
  /\ UNCHANGED <<client, pc, request, env, metadata, corruptionCheck, samples, issues,
                 details, frameStatus, aggregatorCalls, report, response>>

NextRepeat ==
  \/ RepeatRuleBasedDetection
  \/ RepeatRuleBasedDetectionAI

SpecRepeat == InitRepeat /\ [][NextRepeat]_vars

\* the issue flags of a result
FlagsOf(result) == [k \in IssueKinds |-> result[k]]

\* what the copy gives when called first, nothing having been called before
FirstCallResult(call) ==
  IF call.copy = "index.js"
  THEN ruleBasedDetection(call.features, call.metadata)
  ELSE ruleBasedDetectionAI(call.features, call.metadata)

WindowRead(b, sample) == Slice(b, sample.offset, sample.offset + WindowBytes)

\* C26: every window sampleVideoData reads has at least one byte and at most
\* 100, and ends within the buffer, for every buffer length (those below
\* sampleCount and 0 too); so every sample's mean and variance are numbers and
\* the variance is not negative.
C26_WindowsNonEmpty ==
  pc = "SamplesDone" =>
     \A i \in 1..Len(fnResult) :
        LET window == WindowRead(fnArgs.buffer, fnResult[i])
        IN  /\ Len(window) >= 1
            /\ Len(window) <= 100
            /\ fnResult[i].offset + Len(window) <= fnArgs.buffer.byteLength
            /\ fnResult[i].mean.kind = "num"
            /\ fnResult[i].variance.kind = "num"
            /\ fnResult[i].variance.num >= 0

\* the supplied frames (by number, from 1) that were submitted, in the order
\* of their submission
SubmittedFrames == [i \in 1..Len(frameStatus) |-> frameStatus[i].frame]

\* C27: at most 5 frames are submitted in a run; they are the first frames
\* supplied, in the supplied order (of more than 5, the first 5), each
\* submitted once: no frame twice, and no classification started again once
\* submitted.
C27_AtMostFiveFrames ==
  /\ [](/\ Len(frameStatus) <= 5
        /\ \A i \in 1..Len(frameStatus) : SubmittedFrames[i] = i
        /\ Len(frameStatus) <= request.frames
        /\ (pc \in {"Classifying", "Done", "Responded"} /\ SecondaryPath
              /\ env.HF_API_KEY # "") =>
              Len(frameStatus) = IF request.frames > 5 THEN 5 ELSE request.frames)
  /\ [][frameStatus # <<>> =>
           /\ Len(frameStatus') = Len(frameStatus)
           /\ \A i \in 1..Len(frameStatus) :
                 /\ frameStatus'[i].frame = frameStatus[i].frame
                 /\ frameStatus'[i].state = "pending" => frameStatus[i].state = "pending"]_vars

\* C27 witness: six frames supplied, the first five classified, the report
\* returned
C27_Witness ==
  /\ Returned0 /\ request.frames = 6
  /\ SubmittedFrames = <<1, 2, 3, 4, 5>>
  /\ EveryFrameCompleted
  /\ FramesOk # {}

\* the classified frames whose parsed reply has issue k
FramesReporting(k) == {i \in FramesOk : ParsedReply[frameStatus[i].reply][k]}

\* C28: whatever the order in which the classifications complete, the
\* aggregator gets the results of the classified frames in the order of the
\* frames, and the aggregated issues and the report are determined by the
\* outcome of each frame alone.
C28_FrameOrderKept ==
  (Returned0 /\ SecondaryPath /\ FramesOk # {}) =>
     /\ Len(aggregatorCalls) = 1
     /\ LET passed == aggregatorCalls[1]
        IN  /\ Len(passed) = Cardinality(FramesOk)
            /\ \A j \in 1..Len(passed) :
                  /\ passed[j].frameIndex + 1 \in FramesOk
                  /\ passed[j].rawResult = frameStatus[passed[j].frameIndex + 1].reply
                  /\ Cardinality({i \in FramesOk : i <= passed[j].frameIndex + 1}) = j
            /\ \A k \in IssueKinds :
                  aggregateFrameResults(passed)[k] <=>
                     (10 * Cardinality(FramesReporting(k)) > 3 * Cardinality(FramesOk))
     /\ report = SecondaryReport(frameStatus)

\* C28 witness: of four frames the second and the fourth were classified, with
\* different replies; the aggregator got the second frame's result first
C28_Witness ==
  /\ Returned0 /\ SecondaryPath
  /\ Len(frameStatus) = 4
  /\ FramesOk = {2, 4}
  /\ frameStatus[2].reply = "cleanLabels" /\ frameStatus[4].reply = "glitchLabels"
  /\ aggregatorCalls # <<>>
  /\ aggregatorCalls[1][1].frameIndex = 1
  /\ aggregatorCalls[1][2].frameIndex = 3

\* the phases of a run, by the model's pc: Start, CorruptionChecked, the mode
\* selected (RuleOnly, or the AI attempt by the preferred or the secondary
\* capability, the latter with its frame classifications), and Done, where the
\* merged report is returned
PhaseOrder ==
  { <<"Received", "Start">>,
    <<"Start", "CorruptionChecked">>,
    <<"CorruptionChecked", "RuleOnly">>,
    <<"CorruptionChecked", "Preferred">>,
    <<"CorruptionChecked", "Secondary">>,
    <<"RuleOnly", "Done">>,
    <<"Preferred", "Done">>,
    <<"Secondary", "Classifying">>,
    <<"Classifying", "Done">>,
    <<"Done", "Responded">> }

\* the phases from which phase p can still be reached
RECURSIVE Before(_, _)
Before(p, depth) ==
  IF depth = 0 THEN {}
  ELSE LET direct == {e[1] : e \in {f \in PhaseOrder : f[2] = p}}
       IN  direct \cup UNION {Before(q, depth - 1) : q \in direct}

\* C29: a run goes through Start, CorruptionChecked, the selected mode (one of
\* RuleOnly and the AI attempt, by the caller's flag), then the merged report
\* and Done, in this order; no phase is entered twice; the corruption result is
\* merged before the mode is selected; one report is produced per run; the
\* fallback, if taken, follows a failed AI attempt.
C29_PhaseOrder ==
  /\ [][pc' # pc => /\ <<pc, pc'>> \in PhaseOrder
                    /\ pc' \notin Before(pc, Cardinality(PhaseOrder))]_vars
  /\ [](pc \in {"CorruptionChecked", "RuleOnly", "Preferred", "Secondary", "Classifying"} =>
          /\ issues = MergeCorruption(corruptionCheck).issues
          /\ details = MergeCorruption(corruptionCheck).details
          /\ report = NoReport)
  /\ [](pc = "RuleOnly" => ~request.useAI)
  /\ [](pc \in {"Preferred", "Secondary", "Classifying"} => request.useAI)
  /\ [](Returned0 <=> report # NoReport)
  /\ [][report' # report => (report = NoReport /\ pc # "Done" /\ pc' = "Done")]_vars
  /\ [](Contains(report.details, MsgFallback) => (request.useAI /\ Returned0))

\* C29 witness: a run through the secondary capability with two frames, on a
\* buffer the corruption check flags, has been answered
C29_Witness ==
  /\ pc = "Responded"
  /\ SecondaryPath /\ Len(frameStatus) = 2 /\ EveryFrameCompleted
  /\ corruptionCheck.hasIssue
  /\ IsPrefix(corruptionCheck.issues, report.details)
  /\ report # NoReport

\* the issues of the report as the buffer alone determines them
IssuesOfBuffer(b) ==
  [k \in IssueKinds |-> k = "corruption" /\ detectCorruption(b).hasIssue]

RuleCorruptionFlags(args) ==
  LET meta == analyzeVideoMetadata(args.buffer, args.mimeType)
      list == sampleVideoData(args.buffer, args.sampleCount)
  IN  { ruleBasedDetection(extractFeatures(list, meta), meta).corruption,
        ruleBasedDetectionAI(extractFeaturesAI(list, meta), meta).corruption }

\* C32: for every buffer of at least 1024 bytes detectCorruption reports the
\* invalid-header issue iff analyzeVideoMetadata finds no codec (null); so for
\* these buffers the rule engine's corruption flag is detectCorruption's
\* hasIssue.
C32_CheckerAgreesWithSniffer ==
  /\ (pc = "CorruptionDone" /\ fnArgs.buffer.byteLength >= 1024) =>
        /\ Contains(fnResult.issues, MsgBadHeader) <=>
              (analyzeVideoMetadata(fnArgs.buffer, fnArgs.mimeType).codec = "null")
        /\ RuleCorruptionFlags(fnArgs) = {fnResult.hasIssue}
  /\ (pc = "MetadataDone" /\ fnArgs.buffer.byteLength >= 1024) =>
        /\ (fnResult.codec = "null") <=>
              Contains(detectCorruption(fnArgs.buffer).issues, MsgBadHeader)
        /\ (fnResult.codec = "null") <=> detectCorruption(fnArgs.buffer).hasIssue

\* C32 witness: 1024 bytes beginning with the EBML magic: no issue, codec WebM
C32_Witness ==
  /\ pc = "CorruptionDone"
  /\ fnArgs.buffer.byteLength = 1024
  /\ SubSeq(fnArgs.buffer.head, 1, 4) = <<26, 69, 223, 163>>
  /\ ~fnResult.hasIssue
  /\ analyzeVideoMetadata(fnArgs.buffer, fnArgs.mimeType).codec = "WebM"

\* all but the last element
Front(s) == SubSeq(s, 1, Len(s) - 1)

\* the two rule engines agree on the features each gets from its own
\* extractor: same flags, same details but for the last
RuleCopiesAgree(list, meta) ==
  LET here == ruleBasedDetection(extractFeatures(list, meta), meta)
      there == ruleBasedDetectionAI(extractFeaturesAI(list, meta), meta)
  IN  /\ \A k \in IssueKinds : here[k] = there[k]
      /\ Front(here.details) = Front(there.details)
      /\ Last(here.details) = MsgNeedFrames
      /\ Last(there.details) = MsgNeedFramesAI

Answered == pc \in {"Responded", "Rejected", "Failed"}

WorkerIdle ==
  UNCHANGED <<pc, request, env, metadata, corruptionCheck, samples, issues, details,
              frameStatus, aggregatorCalls, report, response, fnArgs, fnResult>>

\* what the user may drop or pick
FileKinds == {"video", "notVideo", "tooLarge"}

\* what the URL box may hold
UrlKinds == {"empty", "invalid", "valid"}

\* how extractSingleFrame may settle: a blob, a rejection (error event, null
\* blob, drawing error), or its 5-second timer
FrameOutcomes == {"blob", "failed", "timeout"}

\* how the fetch of /api/detect may settle
FetchOutcomes == {"success", "serverError"}

Attempts == 1..MaxAttempts

InFlight(k) == client.attempts[k].phase \in {"Extracting", "Sending"}

\* the slot of the next attempt
NextAttempt ==
  CHOOSE k \in Attempts :
    /\ client.attempts[k].phase = "None"
    /\ \A j \in 1..(k - 1) : client.attempts[j].phase # "None"

Ended(outcome) == [NoAttempt EXCEPT !.phase = "Ended", !.outcome = outcome]

\* the catch and finally blocks of the detect handler
CatchFinally(k, outcome) ==
  [client EXCEPT !.errorShown = TRUE,
                 !.loadingShown = FALSE,
                 !.detectBtnDisabled = FALSE,
                 !.attempts[k] = Ended(outcome)]

\* handleFileSelect(file), reached from the drop and the change listeners
handleFileSelect ==
  /\ \E kind \in FileKinds :
       IF kind # "video"
         THEN client' = [client EXCEPT !.errorShown = TRUE]
         ELSE client' = [client EXCEPT !.videoSource = "file",
                                       !.ready = FALSE,
                                       !.detectBtnDisabled = FALSE,
                                       !.resultsShown = FALSE,
                                       !.errorShown = FALSE]
  /\ WorkerIdle

\* the loadUrlBtn click listener, up to its await
ClickLoadUrl ==
  /\ ~client.loadUrlBtnDisabled
  /\ \E url \in UrlKinds :
       IF url # "valid"
         THEN client' = [client EXCEPT !.errorShown = TRUE]
         ELSE client' = [client EXCEPT !.loadUrlBtnDisabled = TRUE,
                                       !.loadingShown = TRUE,
                                       !.errorShown = FALSE,
                                       !.videoSource = "url",
                                       !.ready = FALSE,
                                       !.detectBtnDisabled = FALSE,
                                       !.resultsShown = FALSE]
  /\ WorkerIdle

\* the video element's loadedmetadata event; it resolves the URL load awaited
LoadedMetadata ==
  /\ client.videoSource # "null"
  /\ ~client.ready
  /\ client' = IF client.loadUrlBtnDisabled
                 THEN [client EXCEPT !.ready = TRUE,
                                     !.loadingShown = FALSE,
                                     !.loadUrlBtnDisabled = FALSE]
                 ELSE [client EXCEPT !.ready = TRUE]
  /\ WorkerIdle

\* the URL load awaited rejects: the video's error event, or the 30-second timer
LoadUrlFails ==
  /\ client.loadUrlBtnDisabled
  /\ client' = [client EXCEPT !.errorShown = TRUE,
                              !.detectBtnDisabled = TRUE,
                              !.loadingShown = FALSE,
                              !.loadUrlBtnDisabled = FALSE]
  /\ WorkerIdle

\* the user flips the AI checkbox
ToggleAI ==
  /\ client' = [client EXCEPT !.aiToggle = ~client.aiToggle]
  /\ WorkerIdle

\* the detectBtn click listener, up to its first await
ClickDetect ==
  /\ ~client.detectBtnDisabled
  /\ \E k \in Attempts : client.attempts[k].phase = "None"
  /\ LET k == NextAttempt
         started == [client EXCEPT !.detectBtnDisabled = TRUE,
                                   !.loadingShown = TRUE,
                                   !.resultsShown = FALSE,
                                   !.errorShown = FALSE]
     IN  client' =
           IF client.videoSource = "null"
             THEN [client EXCEPT !.errorShown = TRUE]
           ELSE IF ~client.ready
             THEN [started EXCEPT !.errorShown = TRUE,
                                  !.loadingShown = FALSE,
                                  !.detectBtnDisabled = FALSE,
                                  !.attempts[k] = Ended("notReady")]
           ELSE [started EXCEPT !.attempts[k] =
                   [NoAttempt EXCEPT !.phase = "Extracting", !.frame = 1]]
  /\ WorkerIdle

\* extractVideoFrames past its loop, with an always-returning result
ExtractionResultAlways(frames) == "frames"

\* extractVideoFrames past its loop: it throws when no frame was kept
ExtractionResult(frames) == IF frames = 0 THEN "throws" ELSE "frames"

\* one turn of extractVideoFrames' loop: extractSingleFrame settles; past the
\* last frame the function returns and the handler goes on to its fetch
ExtractFrame(k) ==
  /\ client.attempts[k].phase = "Extracting"
  /\ \E outcome \in FrameOutcomes :
       LET a == client.attempts[k]
           frames == IF outcome = "blob" THEN a.frames + 1 ELSE a.frames
       IN  client' =
             IF a.frame < ClientFrames
               THEN [client EXCEPT !.attempts[k].frame = a.frame + 1,
                                   !.attempts[k].frames = frames]
             ELSE IF ExtractionResult(frames) = "throws"
               THEN CatchFinally(k, "noFrames")
             ELSE [client EXCEPT !.sent = client.sent + 1,
                                 !.attempts[k] = [a EXCEPT !.phase = "Sending",
                                                           !.frames = frames,
                                                           !.useAI = client.aiToggle]]
  /\ WorkerIdle

\* the 30-second timer of the handler's Promise.race wins
ExtractionTimeout(k) ==
  /\ client.attempts[k].phase = "Extracting"
  /\ client' = CatchFinally(k, "timeout")
  /\ WorkerIdle

\* the fetch settles: displayResults, or the catch block; then finally
FetchSettles(k) ==
  /\ client.attempts[k].phase = "Sending"
  /\ \E outcome \in FetchOutcomes :
       client' = IF outcome = "success"
                   THEN [client EXCEPT !.resultsShown = TRUE,
                                       !.loadingShown = FALSE,
                                       !.detectBtnDisabled = FALSE,
                                       !.attempts[k] = Ended("success")]
                   ELSE CatchFinally(k, "serverError")
  /\ WorkerIdle

InitClient ==
  /\ pc = "Page"
  /\ fnArgs = <<>>
  /\ fnResult = <<>>
  /\ Idle

NextClient ==
  \/ handleFileSelect
  \/ ClickLoadUrl
  \/ LoadedMetadata
  \/ LoadUrlFails
  \/ ToggleAI
  \/ ClickDetect
  \/ \E k \in Attempts : ExtractFrame(k)
  \/ \E k \in Attempts : ExtractionTimeout(k)
  \/ \E k \in Attempts : FetchSettles(k)

SpecClient == InitClient /\ [][NextClient]_vars

\* the page's state stays in its type
ClientTypeOK ==
  /\ client.videoSource \in {"null", "file", "url"}
  /\ client.sent \in 0..MaxAttempts
  /\ \A k \in Attempts :
       /\ client.attempts[k].phase \in {"None", "Extracting", "Sending", "Ended"}
       /\ client.attempts[k].frame \in 0..ClientFrames
       /\ client.attempts[k].frames \in 0..ClientFrames

\* ------------------------------------------------------------------ C35

\* the attempts whose request went out
Requested ==
  {k \in Attempts : \/ client.attempts[k].phase = "Sending"
                    \/ client.attempts[k].outcome \in FetchOutcomes}

\* C35: the page sends a request to /api/detect only when extractVideoFrames
\* returned at least one frame before the 30-second timer: a request goes out
\* exactly in the step in which the last of the five frames settles, with one
\* to five frames kept, whatever the AI toggle says (the toggle only sets the
\* useAI field). An attempt that leaves extraction otherwise (the timer, no
\* frame kept, the video not ready) sends nothing and shows the error. A frame
\* that fails or times out only moves the loop to the next frame: the loop ends
\* early on the 30-second timer alone.
C35_FramesGateRequest ==
  /\ [](/\ client.sent = Cardinality(Requested)
        /\ \A k \in Attempts :
             client.attempts[k].phase = "Sending"
               => client.attempts[k].frames \in 1..ClientFrames)
  /\ [][\A k \in Attempts :
          LET a == client.attempts[k]
              b == client'.attempts[k]
          IN  /\ (a.phase # "Sending" /\ b.phase = "Sending")
                   => /\ a.phase = "Extracting"
                      /\ a.frame = ClientFrames
                      /\ b.frames \in {a.frames, a.frames + 1}
                      /\ b.frames >= 1
                      /\ b.useAI = client.aiToggle
                      /\ client'.sent = client.sent + 1
              /\ (a.phase \in {"None", "Extracting"} /\ b.phase = "Ended")
                   => /\ b.outcome \in {"notReady", "timeout", "noFrames"}
                      /\ client'.sent = client.sent
                      /\ client'.errorShown
                      /\ b.outcome = "noFrames"
                           => a.frame = ClientFrames /\ a.frames = 0
                      /\ b.outcome = "notReady" => a.phase = "None"
              /\ (a.phase = "Extracting" /\ b.phase = "Extracting" /\ b # a)
                   => /\ b.frame = a.frame + 1
                      /\ b.frames \in {a.frames, a.frames + 1}
              /\ (a.phase = "Extracting" /\ b.phase \notin {"Extracting", "Sending"})
                   => b.phase = "Ended"
              /\ client'.sent # client.sent
                   => \E j \in Attempts : /\ client.attempts[j].phase = "Extracting"
                                          /\ client'.attempts[j].phase = "Sending"]_vars

\* a request went out with the AI toggle off, after some frame was skipped
C35_Witness ==
  \E k \in Attempts :
    /\ client.attempts[k].phase = "Sending"
    /\ ~client.attempts[k].useAI
    /\ client.attempts[k].frames \in 1..(ClientFrames - 1)
    /\ client.sent >= 1

\* ------------------------------------------------------------------ C36

\* C36: while a detection attempt is in flight (extracting frames or waiting
\* for the server) the detect button is disabled and the loading indicator is
\* shown, and no second attempt is in flight beside it; the step that ends an
\* attempt, whatever its outcome, leaves the button enabled and the indicator
\* hidden.
C36_ButtonGuardsAttempt ==
  /\ [](/\ \A k \in Attempts :
             InFlight(k) => client.detectBtnDisabled /\ client.loadingShown
        /\ Cardinality({k \in Attempts : InFlight(k)}) <= 1)
  /\ [][\A k \in Attempts :
          (client.attempts[k].phase # "Ended" /\ client'.attempts[k].phase = "Ended")
            => ~client'.detectBtnDisabled /\ ~client'.loadingShown]_vars

\* the detect handler's own steps: the button and the indicator at the end of
\* an attempt
AttemptEndsClean ==
  [][\A k \in Attempts :
       (client.attempts[k].phase # "Ended" /\ client'.attempts[k].phase = "Ended")
         => ~client'.detectBtnDisabled /\ ~client'.loadingShown]_vars

\* an attempt is in flight with the button enabled
ButtonEnabledInFlight == \E k \in Attempts : InFlight(k) /\ ~client.detectBtnDisabled

\* an attempt is in flight with the indicator hidden
LoadingHiddenInFlight == \E k \in Attempts : InFlight(k) /\ ~client.loadingShown

\* two attempts are in flight
TwoInFlight == Cardinality({k \in Attempts : InFlight(k)}) >= 2

====
